---- MODULE Spec2Model ----
(***************************************************************************)
(* Client-side GENA of npupnp (gena_ctrlpt): genaSubscribe,                *)
(* genaRenewSubscription, genaUnSubscribe, genaUnregisterClient, the       *)
(* auto-renew timer job and gena_process_notification_event, with the two  *)
(* mutexes (the handle lock and GlobalClientSubscribeMutex), the client's  *)
(* subscription list and the timer thread's queue of renewal jobs.         *)
(*                                                                         *)
(* Every call of an operation is one thread of control: thread k runs the  *)
(* k-th call that was started.  A step of a thread is one critical section *)
(* of the code, one blocking lock acquisition, or the return of one        *)
(* outbound HTTP request.                                                  *)
(***************************************************************************)
EXTENDS Integers, Sequences, FiniteSets, TLC

\* ---------------------------------------------------------------- bounds
\* Number of calls (application calls, NOTIFY transactions, timer jobs).
MaxOps == 3

Threads == 1..MaxOps

\* Handle 1 is the registered control point, handle 2 was never registered.
Handles == {1, 2}

\* SID values a publisher may put in its replies.
Sids == {"uuid:a", "uuid:b"}

\* The publisher's event URL, the PublisherURL of every subscribe call.
PublisherURL == "http://pub/evt"

\* Timeouts the application asks for and the publisher grants (-1: infinite).
ReqTimeouts == {1800}
GrantedTimeouts == {1800, -1}

\* SEQ header values of NOTIFY requests, character by character.
SeqValues == {<<"0">>, <<"1">>, <<"-", "1">>, <<"1", "x">>, <<"x">>, <<>>}

\* NT and NTS header values of NOTIFY requests.
NTValues == {"upnp:event", "upnp:other"}
NTSValues == {"upnp:propchange", "upnp:other"}

\* Property sets the XML parser extracts from NOTIFY bodies.
PropSets == {"Foo=1", "Bar=2"}

\* Builds of the library: AUTO_RENEW_TIME 0 (no auto-renewal) or 10.
AutoRenewConfigs == {0, 10}

\* The floor of the TIMEOUT value of outgoing SUBSCRIBE requests, a
\* configuration value of the build.
CP_MINIMUM_SUBSCRIPTION_TIME == 15

\* Timeouts an application may ask for when one call is looked at alone:
\* negative, zero, around the floor, and large.
AnyReqTimeouts ==
    {-1, 0, CP_MINIMUM_SUBSCRIPTION_TIME - 1, CP_MINIMUM_SUBSCRIPTION_TIME,
     CP_MINIMUM_SUBSCRIPTION_TIME + 1, 1800}

\* SID header values of SUBSCRIBE replies when one call is looked at alone:
\* the header may be there with an empty value.
AnySids == Sids \cup {""}

\* -------------------------------------------------------------- constants
UPNP_INFINITE == -1
HTTP_OK == 200
HTTP_PRECONDITION_FAILED == 412
HTTP_BAD_REQUEST == 400

\* Calls of the thread pool's API (addJob, addPersistent, shutdown).
MaxCalls == 3

Calls == 1..MaxCalls

\* The pool's attributes (ThreadPoolAttr), unchanged after start.
INFINITE_THREADS == -1
attr == [minThreads |-> 1, maxThreads |-> 2, jobsPerThread |-> 2,
         maxJobsTotal |-> 2]

\* Threads the model can run at once: one more than attr.maxThreads.
Workers == 1..(attr.maxThreads + 1)

Priorities == {"LOW_PRIORITY", "MED_PRIORITY", "HIGH_PRIORITY"}

\* ------------------------------------------------------------------ state
VARIABLES
    hndType,                    \* handle table: HND_CLIENT or HND_INVALID
    ClientSubList,              \* Handle_Info::ClientSubList of each handle
    GlobalHndRWLock,            \* owner of the handle lock, 0 when free
    GlobalClientSubscribeMutex, \* owner of the subscribe lock, 0 when free
    timers,                     \* gTimerThread: the pending renewal jobs
    lastEventId,                \* gTimerThread: the next job id
    th,                         \* each call's position and locals
    nops,                       \* calls started so far
    AUTO_RENEW_TIME,            \* compile-time configuration
    tp,                         \* ThreadPool::Internal
    wt,                         \* each WorkerThread's position and locals
    call,                       \* each call of the pool's API
    gh                          \* history: ids of jobs taken and deleted

\* The state of GENA and the state of the thread pool.
gena == <<hndType, ClientSubList, GlobalHndRWLock, GlobalClientSubscribeMutex,
          timers, lastEventId, th, nops, AUTO_RENEW_TIME>>
pool == <<tp, wt, call, gh>>

vars == <<gena, pool>>

\* A ClientSubscription holding nothing.
NoSub == [SID |-> "", eventURL |-> "", renewEventId |-> -1]

\* A NOTIFY transaction as the handler reads it: which headers are present and
\* their values, has_xml_content_type(mhdt), whether postdata is empty,
\* whether the XML parser accepts the body and the property set it extracts.
NotifyRequests ==
    [has_sid : BOOLEAN, sid : Sids, has_seq : BOOLEAN, seq : SeqValues,
     has_nt : BOOLEAN, nt : NTValues, has_nts : BOOLEAN, nts : NTSValues,
     xml_type : BOOLEAN, postdata_empty : BOOLEAN, parse_ok : BOOLEAN,
     propset : PropSets]

\* A request that passes every check of the handler, for a SID and a SEQ.
GoodRequest(sid, seq) ==
    [has_sid |-> TRUE, sid |-> sid, has_seq |-> TRUE, seq |-> seq,
     has_nt |-> TRUE, nt |-> "upnp:event", has_nts |-> TRUE,
     nts |-> "upnp:propchange", xml_type |-> TRUE, postdata_empty |-> FALSE,
     parse_ok |-> TRUE, propset |-> "Foo=1"]

\* The NOTIFY requests that arrive while other calls are running: the
\* well-formed ones with SEQ 0 or 1, one without SID, one with a SEQ that is
\* not a number.
ArrivingRequests ==
    {GoodRequest(sid, seq) : sid \in Sids, seq \in {<<"0">>, <<"1">>}}
    \cup {[GoodRequest("uuid:a", <<"0">>) EXCEPT !.has_sid = FALSE],
          GoodRequest("uuid:a", <<"x">>)}

\* No transaction.
NoRequest == [GoodRequest("", <<>>) EXCEPT !.has_sid = FALSE, !.has_seq = FALSE]

\* No outcome of an outbound request.
NoEnv ==
    [url_ok |-> FALSE, if_ok |-> FALSE, curl_ok |-> FALSE, http_status |-> 0,
     has_sid |-> FALSE, has_timeout |-> FALSE, timeout_ok |-> FALSE,
     sid |-> "", timeout |-> 0]

\* A thread that has not been started.
Idle ==
    [op |-> "none", pc |-> "idle", handle |-> 0, in_sid |-> "", TimeOut |-> 0,
     sub_copy |-> NoSub, SID |-> "", return_code |-> "NONE", http |-> "NONE",
     eventKey |-> 0, status |-> 0, upcalls |-> <<>>, eventId |-> -1,
     raced |-> {}, recorded |-> FALSE, solo |-> FALSE, removed |-> FALSE,
     req |-> NoRequest, propset |-> "", timostr |-> <<>>, env |-> NoEnv,
     renamed |-> ""]

\* A job object: id names the call that created it.
NoJob == [id |-> 0, priority |-> "none"]

\* Locals of a WorkerThread that is not running.
NoWorker == [pc |-> "none", job |-> NoJob, persistent |-> -1]

\* Locals of a call that has not started.
NoCall ==
    [op |-> "none", pc |-> "idle", job |-> NoJob, jobs |-> 0, threads |-> 0,
     cw |-> "none", ret |-> "none"]

\* ThreadPool::Internal as its constructor leaves it before it creates the
\* first worker (lines 549-555).
NoThreads ==
    [shuttingdown |-> FALSE, totalThreads |-> 0,
     pendingWorkerThreadStart |-> 0, busyThreads |-> 0,
     persistentThreads |-> 0, lowJobQ |-> <<>>, medJobQ |-> <<>>,
     highJobQ |-> <<>>, persistentJob |-> NoJob]

\* No thread pool: the state of every execution that is about GENA alone.
NoPool ==
    /\ tp = NoThreads
    /\ wt = [w \in Workers |-> NoWorker]
    /\ call = [c \in Calls |-> NoCall]
    /\ gh = [taken |-> {}, discarded |-> {}]

\* ---------------------------------------------------------------- helpers
\* GetHandleInfo answering HND_CLIENT for every handle: no validation and no
\* re-validation ever fails.
GetHandleInfo_AlwaysClient(h) == "HND_CLIENT"

\* The type the handle table has for h; HND_INVALID for a handle that was
\* never registered or was freed.
GetHandleInfo(h) == hndType[h]

\* The single registered client handle, 0 if there is none.
GetClientHandleInfo ==
    IF \E h \in Handles : hndType[h] = "HND_CLIENT"
    THEN CHOOSE h \in Handles : hndType[h] = "HND_CLIENT"
    ELSE 0

\* std::find_if by SID: index of the first match, 0 for end().
FindSub(list, sid) ==
    IF \E i \in 1..Len(list) : list[i].SID = sid
    THEN CHOOSE i \in 1..Len(list) :
            /\ list[i].SID = sid
            /\ \A j \in 1..(i - 1) : list[j].SID # sid
    ELSE 0

\* ClientSubList.remove_if by SID.
RemoveIf(list, sid) == SelectSeq(list, LAMBDA e : e.SID # sid)

\* TimerThread::remove: drops the pending job with this id, if any.
TimerRemove(tms, id) == {e \in tms : e.eventId # id}

\* clientCancelRenew: cancels the timer the copy names.
clientCancelRenew(tms, sub) ==
    IF sub.renewEventId # -1 THEN TimerRemove(tms, sub.renewEventId) ELSE tms

\* The decimal digits and the value of one.
Digits == <<"0", "1", "2", "3", "4", "5", "6", "7", "8", "9">>
IsDigit(c) == \E i \in 1..10 : Digits[i] = c
DigitValue(c) == (CHOOSE i \in 1..10 : Digits[i] = c) - 1

\* The white space a %d conversion skips.
RECURSIVE SkipSpace(_)
SkipSpace(s) == IF s # <<>> /\ Head(s) = " " THEN SkipSpace(Tail(s)) ELSE s

\* Number of leading digits of s, and the value of its first n characters.
RECURSIVE DigitRun(_)
DigitRun(s) == IF s # <<>> /\ IsDigit(Head(s)) THEN 1 + DigitRun(Tail(s)) ELSE 0

RECURSIVE Decimal(_, _)
Decimal(s, n) ==
    IF n = 0 THEN 0 ELSE Decimal(s, n - 1) * 10 + DigitValue(s[n])

\* operator<< of an int into timostr: the decimal text of n, n >= 0.
RECURSIVE ToDecimal(_)
ToDecimal(n) ==
    IF n < 10 THEN <<Digits[n + 1]>>
    ELSE Append(ToDecimal(n \div 10), Digits[(n % 10) + 1])

\* timostr without the branch of lines 326-327: a small timeout goes out as
\* it was asked for.
timostr_NoFloor(timeout) ==
    IF timeout < 0 THEN <<"infinite">> ELSE ToDecimal(timeout)

\* Lines 322-330: the text after "TIMEOUT: Second-" for a requested timeout.
timostr(timeout) ==
    IF timeout < 0 THEN <<"infinite">>
    ELSE IF timeout < CP_MINIMUM_SUBSCRIPTION_TIME
    THEN ToDecimal(CP_MINIMUM_SUBSCRIPTION_TIME)
    ELSE ToDecimal(timeout)

\* Timeouts a publisher may grant when one call is looked at alone: also
\* fewer seconds than the build's AUTO_RENEW_TIME, and as many.
AnyGrantedTimeouts == GrantedTimeouts \cup {5, 10}

\* Every outcome of an outbound SUBSCRIBE: each test of gena_subscribe may go
\* either way.
AnySubscribeEnvs ==
    [url_ok : BOOLEAN, if_ok : BOOLEAN, curl_ok : BOOLEAN,
     http_status : {200, 500}, has_sid : BOOLEAN, has_timeout : BOOLEAN,
     timeout_ok : BOOLEAN, sid : AnySids, timeout : AnyGrantedTimeouts]

\* Outcomes of an outbound SUBSCRIBE as gena_subscribe sees them: a 200 reply
\* with a SID and a timeout, a URL that does not parse, no interface for the
\* publisher's address, a transport failure, a refusal, and a 200 reply
\* without SID header.
SubscribeEnvs ==
    [url_ok : {TRUE}, if_ok : {TRUE}, curl_ok : {TRUE}, http_status : {200},
     has_sid : {TRUE}, has_timeout : {TRUE}, timeout_ok : {TRUE},
     sid : Sids, timeout : GrantedTimeouts]
    \cup
    {[url_ok |-> u, if_ok |-> f, curl_ok |-> c, http_status |-> s,
      has_sid |-> hs, has_timeout |-> TRUE, timeout_ok |-> TRUE,
      sid |-> "uuid:a", timeout |-> 1800] :
        <<u, f, c, s, hs>> \in
            {<<FALSE, TRUE, TRUE, 200, TRUE>>, <<TRUE, FALSE, TRUE, 200, TRUE>>,
             <<TRUE, TRUE, FALSE, 200, TRUE>>, <<TRUE, TRUE, TRUE, 500, TRUE>>,
             <<TRUE, TRUE, TRUE, 200, FALSE>>}}

\* Outcomes of a renewal SUBSCRIBE: the stored eventURL is one that parsed
\* when the subscription was made.
RenewEnvs == {env \in SubscribeEnvs : env.url_ok}

\* gena_subscribe with the status test of lines 394-399 made before the test
\* of curl's result (lines 387-391).
gena_subscribe_StatusFirst(env, timeout) ==
    IF ~env.url_ok
    THEN [return_code |-> "UPNP_E_INVALID_URL", SID |-> "", TimeOut |-> timeout,
          timostr |-> timostr(timeout)]
    ELSE IF ~env.if_ok
    THEN [return_code |-> "UPNP_E_SOCKET_CONNECT", SID |-> "",
          TimeOut |-> timeout, timostr |-> timostr(timeout)]
    ELSE IF env.http_status # HTTP_OK
    THEN [return_code |-> "UPNP_E_SUBSCRIBE_UNACCEPTED", SID |-> "",
          TimeOut |-> timeout, timostr |-> timostr(timeout)]
    ELSE IF ~env.curl_ok
    THEN [return_code |-> "UPNP_E_SOCKET_CONNECT", SID |-> "",
          TimeOut |-> timeout, timostr |-> timostr(timeout)]
    ELSE IF ~env.has_sid \/ ~env.has_timeout \/ ~env.timeout_ok
    THEN [return_code |-> "UPNP_E_BAD_RESPONSE", SID |-> "", TimeOut |-> timeout,
          timostr |-> timostr(timeout)]
    ELSE [return_code |-> "UPNP_E_SUCCESS", SID |-> env.sid,
          TimeOut |-> env.timeout, timostr |-> timostr(timeout)]

\* gena_subscribe: the return code, the SID and the timeout it hands back,
\* and the TIMEOUT value it builds first for its request.
gena_subscribe(env, timeout) ==
    IF ~env.url_ok
    THEN [return_code |-> "UPNP_E_INVALID_URL", SID |-> "", TimeOut |-> timeout,
          timostr |-> timostr(timeout)]
    ELSE IF ~env.if_ok
    THEN [return_code |-> "UPNP_E_SOCKET_CONNECT", SID |-> "",
          TimeOut |-> timeout, timostr |-> timostr(timeout)]
    ELSE IF ~env.curl_ok
    THEN [return_code |-> "UPNP_E_SOCKET_CONNECT", SID |-> "",
          TimeOut |-> timeout, timostr |-> timostr(timeout)]
    ELSE IF env.http_status # HTTP_OK
    THEN [return_code |-> "UPNP_E_SUBSCRIBE_UNACCEPTED", SID |-> "",
          TimeOut |-> timeout, timostr |-> timostr(timeout)]
    ELSE IF ~env.has_sid \/ ~env.has_timeout \/ ~env.timeout_ok
    THEN [return_code |-> "UPNP_E_BAD_RESPONSE", SID |-> "", TimeOut |-> timeout,
          timostr |-> timostr(timeout)]
    ELSE [return_code |-> "UPNP_E_SUCCESS", SID |-> env.sid,
          TimeOut |-> env.timeout, timostr |-> timostr(timeout)]

\* Outcomes of an outbound UNSUBSCRIBE.
UnsubscribeEnvs ==
    {[curl_ok |-> TRUE, http_status |-> 200],
     [curl_ok |-> FALSE, http_status |-> 200],
     [curl_ok |-> TRUE, http_status |-> 412]}

\* gena_unsubscribe: its return code.
gena_unsubscribe(env) ==
    IF ~env.curl_ok THEN "UPNP_E_SOCKET_CONNECT"
    ELSE IF env.http_status # HTTP_OK THEN "UPNP_E_UNSUBSCRIBE_UNACCEPTED"
    ELSE "UPNP_E_SUCCESS"

\* ScheduleGenaAutoRenew without line 202: the job is scheduled but its id is
\* not stored in the subscription.
ScheduleGenaAutoRenew_NoId(tms, nextId, client_handle, TimeOut, sub, sched_ok) ==
    IF TimeOut = UPNP_INFINITE
    THEN [return_code |-> "UPNP_E_SUCCESS", sub |-> sub, timers |-> tms,
          lastEventId |-> nextId]
    ELSE IF ~sched_ok
    THEN [return_code |-> "UPNP_E_OUTOF_MEMORY", sub |-> sub, timers |-> tms,
          lastEventId |-> nextId]
    ELSE [return_code |-> "UPNP_E_SUCCESS",
          sub |-> sub,
          timers |-> tms \cup
              {[eventId |-> nextId, handle |-> client_handle, Sid |-> sub.SID,
                PublisherUrl |-> sub.eventURL, TimeOut |-> TimeOut,
                delay |-> TimeOut - AUTO_RENEW_TIME]},
          lastEventId |-> nextId + 1]

\* ScheduleGenaAutoRenew: the return code, the subscription with the job's
\* id recorded, and the timer thread afterwards.  sched_ok is whether
\* TimerThread::schedule succeeds.
ScheduleGenaAutoRenew(tms, nextId, client_handle, TimeOut, sub, sched_ok) ==
    IF TimeOut = UPNP_INFINITE
    THEN [return_code |-> "UPNP_E_SUCCESS", sub |-> sub, timers |-> tms,
          lastEventId |-> nextId]
    ELSE IF ~sched_ok
    THEN [return_code |-> "UPNP_E_OUTOF_MEMORY", sub |-> sub, timers |-> tms,
          lastEventId |-> nextId]
    ELSE [return_code |-> "UPNP_E_SUCCESS",
          sub |-> [sub EXCEPT !.renewEventId = nextId],
          timers |-> tms \cup
              {[eventId |-> nextId, handle |-> client_handle, Sid |-> sub.SID,
                PublisherUrl |-> sub.eventURL, TimeOut |-> TimeOut,
                delay |-> TimeOut - AUTO_RENEW_TIME]},
          lastEventId |-> nextId + 1]

\* A call at its return statement: its results are in its record.
Finish(r, rc) ==
    [r EXCEPT !.pc = "done", !.return_code = rc, !.sub_copy = NoSub]

\* No call is in progress.
Quiescent == \A t \in Threads : th[t].pc \in {"idle", "done", "gone"}

\* A call that has returned: its locals are gone.  History only: the handle
\* and the result of a genaUnregisterClient call, and the arguments of a
\* genaUnSubscribe call that returned success while no other call was in
\* progress, stay on record.
Gone(r) ==
    IF r.op = "unregister"
    THEN [Idle EXCEPT !.pc = "gone", !.op = r.op, !.handle = r.handle,
                      !.return_code = r.return_code]
    ELSE IF r.op = "unsubscribe" /\ r.return_code = "UPNP_E_SUCCESS" /\ Quiescent
    THEN [Idle EXCEPT !.pc = "gone", !.op = r.op, !.handle = r.handle,
                      !.in_sid = r.in_sid, !.return_code = r.return_code]
    ELSE [Idle EXCEPT !.pc = "gone"]

\* No call is at its return statement.  Returning touches no shared state, so
\* a call at "done" returns before any other thread takes a step.
NoneDone == \A k \in Threads : th[k].pc # "done"

\* Thread t is the next call to start.
CanStart(t) == nops < MaxOps /\ t = nops + 1 /\ th[t].pc = "idle" /\ NoneDone

\* ------------------------------------------------------------------- Init
Init ==
    /\ hndType = [h \in Handles |-> IF h = 1 THEN "HND_CLIENT" ELSE "HND_INVALID"]
    /\ ClientSubList = [h \in Handles |-> <<>>]
    /\ GlobalHndRWLock = 0
    /\ GlobalClientSubscribeMutex = 0
    /\ timers = {}
    /\ lastEventId = 1
    /\ th = [t \in Threads |-> Idle]
    /\ nops = 0
    /\ AUTO_RENEW_TIME \in AutoRenewConfigs
    /\ NoPool

\* The call of thread t returns to its caller.
Return(t) ==
    /\ th[t].pc = "done"
    /\ th' = [th EXCEPT ![t] = Gone(@)]
    /\ UNCHANGED <<hndType, ClientSubList, GlobalHndRWLock,
                   GlobalClientSubscribeMutex, timers, lastEventId, nops,
                   AUTO_RENEW_TIME>>
    /\ UNCHANGED pool

\* ---------------------------------------------------------- genaSubscribe
\* History only: every NOTIFY that missed while call t was in flight and that
\* carries the SID call t has just recorded is marked.
NoteRecorded(f, t, sid) ==
    [k \in Threads |->
        IF t \in f[k].raced /\ f[k].in_sid = sid
        THEN [f[k] EXCEPT !.recorded = TRUE]
        ELSE f[k]]

\* genaSubscribe_Validate without the HandleUnlock of line 513: the valid path
\* goes on to the SUBSCRIBE request with the handle lock held.
genaSubscribe_Validate_KeepLock(t) ==
    /\ CanStart(t)
    /\ GlobalHndRWLock = 0
    /\ \E h \in Handles, to \in ReqTimeouts :
        LET r == [Idle EXCEPT !.op = "subscribe", !.handle = h, !.TimeOut = to]
        IN  IF GetHandleInfo(h) # "HND_CLIENT"
            THEN th' = [th EXCEPT ![t] =
                        [r EXCEPT !.pc = "sub_bad_sublock",
                                  !.return_code = "GENA_E_BAD_HANDLE"]]
            ELSE th' = [th EXCEPT ![t] = [r EXCEPT !.pc = "sub_sublock"]]
    /\ GlobalHndRWLock' = t
    /\ nops' = nops + 1
    /\ UNCHANGED <<hndType, ClientSubList, GlobalClientSubscribeMutex, timers,
                   lastEventId, AUTO_RENEW_TIME>>
    /\ UNCHANGED pool

\* Lines 504-516: the call, with a requested timeout of timeouts,
\* HandleReadLock and the handle check.  A valid handle releases the lock; an
\* invalid one keeps it and goes for the subscribe lock.
genaSubscribe_Call(t, timeouts) ==
    /\ CanStart(t)
    /\ GlobalHndRWLock = 0
    /\ \E h \in Handles, to \in timeouts :
        LET r == [Idle EXCEPT !.op = "subscribe", !.handle = h, !.TimeOut = to]
        IN  IF GetHandleInfo(h) # "HND_CLIENT"
            THEN /\ th' = [th EXCEPT ![t] =
                        [r EXCEPT !.pc = "sub_bad_sublock",
                                  !.return_code = "GENA_E_BAD_HANDLE"]]
                 /\ GlobalHndRWLock' = t
            ELSE /\ th' = [th EXCEPT ![t] = [r EXCEPT !.pc = "sub_sublock"]]
                 /\ GlobalHndRWLock' = 0
    /\ nops' = nops + 1
    /\ UNCHANGED <<hndType, ClientSubList, GlobalClientSubscribeMutex, timers,
                   lastEventId, AUTO_RENEW_TIME>>
    /\ UNCHANGED pool

\* The application calls genaSubscribe.
genaSubscribe_Validate(t) == genaSubscribe_Call(t, ReqTimeouts)

\* Lines 510-511, 542-546: the invalid-handle path takes the subscribe lock
\* with the handle lock held, then releases both.
genaSubscribe_BadHandle(t) ==
    /\ th[t].pc = "sub_bad_sublock"
    /\ NoneDone
    /\ GlobalClientSubscribeMutex = 0
    /\ th' = [th EXCEPT ![t] = Finish(@, "GENA_E_BAD_HANDLE")]
    /\ GlobalHndRWLock' = 0
    /\ GlobalClientSubscribeMutex' = 0
    /\ UNCHANGED <<hndType, ClientSubList, timers, lastEventId, nops,
                   AUTO_RENEW_TIME>>
    /\ UNCHANGED pool

\* Line 516: SubscribeLock, then the SUBSCRIBE request goes out.
genaSubscribe_Lock(t) ==
    /\ th[t].pc = "sub_sublock"
    /\ NoneDone
    /\ GlobalClientSubscribeMutex = 0
    /\ GlobalClientSubscribeMutex' = t
    /\ th' = [th EXCEPT ![t].pc = "sub_http"]
    /\ UNCHANGED <<hndType, ClientSubList, GlobalHndRWLock, timers,
                   lastEventId, nops, AUTO_RENEW_TIME>>
    /\ UNCHANGED pool

\* Line 517: gena_subscribe returns and the thread goes for the handle lock.
\* What the reply holds is drawn where the thread first uses it.
genaSubscribe_Http(t) ==
    /\ th[t].pc = "sub_http"
    /\ NoneDone
    /\ th' = [th EXCEPT ![t].pc = "sub_relock"]
    /\ UNCHANGED <<hndType, ClientSubList, GlobalHndRWLock,
                   GlobalClientSubscribeMutex, timers, lastEventId, nops,
                   AUTO_RENEW_TIME>>
    /\ UNCHANGED pool

\* genaSubscribe_Record with a plain return in place of the goto of line 522:
\* a failed SUBSCRIBE returns without the unlocks of lines 543-544.
genaSubscribe_Record_EarlyReturn(t) ==
    /\ th[t].pc = "sub_relock"
    /\ NoneDone
    /\ GlobalHndRWLock = 0
    /\ \E env \in SubscribeEnvs, sched_ok \in BOOLEAN :
        LET h == th[t].handle
            g == gena_subscribe(env, th[t].TimeOut)
            r == [th[t] EXCEPT !.TimeOut = g.TimeOut, !.http = g.return_code,
                               !.timostr = g.timostr]
            newSubscription ==
                [SID |-> g.SID, eventURL |-> PublisherURL, renewEventId |-> -1]
            s == ScheduleGenaAutoRenew(timers, lastEventId, h, g.TimeOut,
                                       newSubscription, sched_ok)
        IN  IF g.return_code # "UPNP_E_SUCCESS"
            THEN /\ th' = [th EXCEPT ![t] = Finish(r, g.return_code)]
                 /\ GlobalHndRWLock' = t
                 /\ UNCHANGED <<ClientSubList, timers, lastEventId,
                                GlobalClientSubscribeMutex>>
            ELSE IF GetHandleInfo(h) # "HND_CLIENT"
            THEN /\ th' = [th EXCEPT ![t] = Finish(r, "GENA_E_BAD_HANDLE")]
                 /\ GlobalHndRWLock' = 0
                 /\ GlobalClientSubscribeMutex' = 0
                 /\ UNCHANGED <<ClientSubList, timers, lastEventId>>
            ELSE /\ ClientSubList' = [ClientSubList EXCEPT ![h] = <<s.sub>> \o @]
                 /\ timers' = s.timers
                 /\ lastEventId' = s.lastEventId
                 /\ GlobalHndRWLock' = 0
                 /\ GlobalClientSubscribeMutex' = 0
                 /\ th' = NoteRecorded(
                        [th EXCEPT ![t] =
                            Finish([r EXCEPT !.SID = g.SID], s.return_code)],
                        t, g.SID)
    /\ UNCHANGED <<hndType, nops, AUTO_RENEW_TIME>>
    /\ UNCHANGED pool

\* Lines 518-546 after a request whose outcome is one of envs: HandleLock, the
\* error check, the re-validation, the new list entry, the renewal job, and
\* both unlocks.
genaSubscribe_Reply(t, envs) ==
    /\ th[t].pc = "sub_relock"
    /\ NoneDone
    /\ GlobalHndRWLock = 0
    /\ \E env \in envs, sched_ok \in BOOLEAN :
        LET h == th[t].handle
            g == gena_subscribe(env, th[t].TimeOut)
            r == [th[t] EXCEPT !.TimeOut = g.TimeOut, !.http = g.return_code,
                               !.timostr = g.timostr]
            newSubscription ==
                [SID |-> g.SID, eventURL |-> PublisherURL, renewEventId |-> -1]
            s == ScheduleGenaAutoRenew(timers, lastEventId, h, g.TimeOut,
                                       newSubscription, sched_ok)
        IN  IF g.return_code # "UPNP_E_SUCCESS"
            THEN /\ th' = [th EXCEPT ![t] = Finish(r, g.return_code)]
                 /\ UNCHANGED <<ClientSubList, timers, lastEventId>>
            ELSE IF GetHandleInfo(h) # "HND_CLIENT"
            THEN /\ th' = [th EXCEPT ![t] = Finish(r, "GENA_E_BAD_HANDLE")]
                 /\ UNCHANGED <<ClientSubList, timers, lastEventId>>
            ELSE /\ ClientSubList' = [ClientSubList EXCEPT ![h] = <<s.sub>> \o @]
                 /\ timers' = s.timers
                 /\ lastEventId' = s.lastEventId
                 /\ th' = NoteRecorded(
                        [th EXCEPT ![t] =
                            Finish([r EXCEPT !.SID = g.SID], s.return_code)],
                        t, g.SID)
    /\ GlobalHndRWLock' = 0
    /\ GlobalClientSubscribeMutex' = 0
    /\ UNCHANGED <<hndType, nops, AUTO_RENEW_TIME>>
    /\ UNCHANGED pool

\* The thread of a genaSubscribe call has the handle lock again.
genaSubscribe_Record(t) == genaSubscribe_Reply(t, SubscribeEnvs)

\* -------------------------------------------------- genaRenewSubscription
\* History only: every genaUnSubscribe call that copied the entry with SID
\* old of handle h and has not yet removed it is told the SID a renewal has
\* just given that entry (line 608).
NoteRenamed(f, h, old, new) ==
    [k \in Threads |->
        IF /\ f[k].op = "unsubscribe"
           /\ f[k].pc \in {"unsub_http", "unsub_relock"}
           /\ f[k].handle = h /\ f[k].in_sid = old
        THEN [f[k] EXCEPT !.renamed = new]
        ELSE f[k]]

\* RenewReturn with the test of lines 139-141 never true: the timer job
\* reports no failure.
RenewReturn_Silent(r, rc) == Finish(r, rc)

\* RenewReturn with the test of lines 139-141 always true: the timer job
\* reports every result of its renewal.
RenewReturn_Always(r, rc) ==
    IF r.op = "renew"
    THEN Finish(r, rc)
    ELSE [r EXCEPT !.pc = "job_cblock", !.return_code = rc, !.sub_copy = NoSub]

\* What genaRenewSubscription's caller does when it returns rc: the
\* application gets rc; the timer job (lines 137-143) decides on the upcall.
RenewReturn(r, rc) ==
    IF r.op = "renew"
    THEN Finish(r, rc)
    ELSE IF rc \notin {"UPNP_E_SUCCESS", "GENA_E_BAD_SID", "GENA_E_BAD_HANDLE"}
    THEN [r EXCEPT !.pc = "job_cblock", !.return_code = rc, !.sub_copy = NoSub]
    ELSE Finish(r, rc)

\* Lines 555-577 for record r of thread t: HandleLock, the handle and SID
\* checks, the old job's removal, the copy, HandleUnlock.
RenewValidate(t, r) ==
    /\ GlobalHndRWLock = 0
    /\ GlobalHndRWLock' = 0
    /\ LET h == r.handle
           i == FindSub(ClientSubList[h], r.in_sid)
       IN  IF GetHandleInfo(h) # "HND_CLIENT"
           THEN /\ th' = [th EXCEPT ![t] = RenewReturn(r, "GENA_E_BAD_HANDLE")]
                /\ UNCHANGED <<ClientSubList, timers>>
           ELSE IF i = 0
           THEN /\ th' = [th EXCEPT ![t] = RenewReturn(r, "GENA_E_BAD_SID")]
                /\ UNCHANGED <<ClientSubList, timers>>
           ELSE /\ timers' = TimerRemove(timers, ClientSubList[h][i].renewEventId)
                /\ ClientSubList' =
                        [ClientSubList EXCEPT ![h][i].renewEventId = -1]
                /\ th' = [th EXCEPT ![t] =
                        [r EXCEPT !.pc = "renew_http",
                                  !.sub_copy =
                                      [ClientSubList[h][i] EXCEPT
                                          !.renewEventId = -1]]]
    /\ UNCHANGED pool

\* The application calls genaRenewSubscription with a requested timeout of
\* timeouts.
genaRenewSubscription_Call(t, timeouts) ==
    /\ CanStart(t)
    /\ \E h \in Handles, sid \in Sids, to \in timeouts :
        RenewValidate(t, [Idle EXCEPT !.op = "renew", !.handle = h,
                                      !.in_sid = sid, !.TimeOut = to,
                                      !.solo = Quiescent])
    /\ nops' = nops + 1
    /\ UNCHANGED <<hndType, GlobalClientSubscribeMutex, lastEventId,
                   AUTO_RENEW_TIME>>
    /\ UNCHANGED pool

\* The application calls genaRenewSubscription.
genaRenewSubscription_Validate(t) ==
    genaRenewSubscription_Call(t, ReqTimeouts)

\* Line 580: gena_subscribe returns and the thread goes for the handle lock.
genaRenewSubscription_Http(t) ==
    /\ th[t].pc = "renew_http"
    /\ NoneDone
    /\ th' = [th EXCEPT ![t].pc = "renew_relock"]
    /\ UNCHANGED <<hndType, ClientSubList, GlobalHndRWLock,
                   GlobalClientSubscribeMutex, timers, lastEventId, nops,
                   AUTO_RENEW_TIME>>
    /\ UNCHANGED pool

\* genaRenewSubscription_Record without the remove_if of lines 591-592: a
\* failed renewal leaves the subscription in the list.
genaRenewSubscription_Record_KeepOnError(t) ==
    /\ th[t].pc = "renew_relock"
    /\ NoneDone
    /\ GlobalHndRWLock = 0
    /\ GlobalHndRWLock' = 0
    /\ \E env \in RenewEnvs, sched_ok \in BOOLEAN :
        LET h == th[t].handle
            in_sid == th[t].in_sid
            g == gena_subscribe(env, th[t].TimeOut)
            r == [th[t] EXCEPT !.TimeOut = g.TimeOut, !.SID = g.SID,
                               !.http = g.return_code, !.timostr = g.timostr]
            i == FindSub(ClientSubList[h], in_sid)
            sub == [ClientSubList[h][i] EXCEPT !.SID = g.SID]
            s == ScheduleGenaAutoRenew(timers, lastEventId, h, g.TimeOut, sub,
                                       sched_ok)
            list == [ClientSubList[h] EXCEPT ![i] = s.sub]
        IN  IF GetHandleInfo(h) # "HND_CLIENT"
            THEN /\ th' = [th EXCEPT ![t] = RenewReturn(r, "GENA_E_BAD_HANDLE")]
                 /\ UNCHANGED <<ClientSubList, timers, lastEventId>>
            ELSE IF g.return_code # "UPNP_E_SUCCESS"
            THEN /\ timers' = clientCancelRenew(timers, th[t].sub_copy)
                 /\ th' = [th EXCEPT ![t] = RenewReturn(r, g.return_code)]
                 /\ UNCHANGED <<ClientSubList, lastEventId>>
            ELSE IF i = 0
            THEN /\ timers' = clientCancelRenew(timers, th[t].sub_copy)
                 /\ th' = [th EXCEPT ![t] = RenewReturn(r, "GENA_E_BAD_SID")]
                 /\ UNCHANGED <<ClientSubList, lastEventId>>
            ELSE /\ ClientSubList' =
                        [ClientSubList EXCEPT ![h] =
                            IF s.return_code # "UPNP_E_SUCCESS"
                            THEN RemoveIf(list, s.sub.SID)
                            ELSE list]
                 /\ timers' = clientCancelRenew(s.timers, th[t].sub_copy)
                 /\ lastEventId' = s.lastEventId
                 /\ th' = [th EXCEPT ![t] = RenewReturn(r, s.return_code)]
    /\ UNCHANGED <<hndType, GlobalClientSubscribeMutex, nops, AUTO_RENEW_TIME>>
    /\ UNCHANGED pool

\* genaRenewSubscription_Reply without the test of lines 601-605: when the
\* subscription is no longer in the list the copy goes back in with the new
\* SID and the call returns success.
genaRenewSubscription_Reply_Reinsert(t, envs) ==
    /\ th[t].pc = "renew_relock"
    /\ NoneDone
    /\ GlobalHndRWLock = 0
    /\ GlobalHndRWLock' = 0
    /\ \E env \in envs, sched_ok \in BOOLEAN :
        LET h == th[t].handle
            in_sid == th[t].in_sid
            g == gena_subscribe(env, th[t].TimeOut)
            r == [th[t] EXCEPT !.TimeOut = g.TimeOut, !.SID = g.SID,
                               !.http = g.return_code, !.timostr = g.timostr]
            i == FindSub(ClientSubList[h], in_sid)
            sub == [ClientSubList[h][i] EXCEPT !.SID = g.SID]
            s == ScheduleGenaAutoRenew(timers, lastEventId, h, g.TimeOut, sub,
                                       sched_ok)
            list == [ClientSubList[h] EXCEPT ![i] = s.sub]
        IN  IF GetHandleInfo(h) # "HND_CLIENT"
            THEN /\ th' = [th EXCEPT ![t] = RenewReturn(r, "GENA_E_BAD_HANDLE")]
                 /\ UNCHANGED <<ClientSubList, timers, lastEventId>>
            ELSE IF g.return_code # "UPNP_E_SUCCESS"
            THEN /\ ClientSubList' =
                        [ClientSubList EXCEPT ![h] = RemoveIf(@, in_sid)]
                 /\ timers' = clientCancelRenew(timers, th[t].sub_copy)
                 /\ th' = [th EXCEPT ![t] = RenewReturn(r, g.return_code)]
                 /\ UNCHANGED lastEventId
            ELSE IF i = 0
            THEN /\ timers' = clientCancelRenew(timers, th[t].sub_copy)
                 /\ ClientSubList' =
                        [ClientSubList EXCEPT ![h] =
                            <<[th[t].sub_copy EXCEPT !.SID = g.SID]>> \o @]
                 /\ th' = [th EXCEPT ![t] = RenewReturn(r, "UPNP_E_SUCCESS")]
                 /\ UNCHANGED lastEventId
            ELSE /\ ClientSubList' =
                        [ClientSubList EXCEPT ![h] =
                            IF s.return_code # "UPNP_E_SUCCESS"
                            THEN RemoveIf(list, s.sub.SID)
                            ELSE list]
                 /\ timers' = clientCancelRenew(s.timers, th[t].sub_copy)
                 /\ lastEventId' = s.lastEventId
                 /\ th' = [th EXCEPT ![t] = RenewReturn(r, s.return_code)]
    /\ UNCHANGED <<hndType, GlobalClientSubscribeMutex, nops, AUTO_RENEW_TIME>>
    /\ UNCHANGED pool

\* Lines 582-620 after a request whose outcome is one of envs: HandleLock, the
\* re-validation, the removal on failure, the lookup by the original SID, the
\* new SID and the new job, HandleUnlock.
genaRenewSubscription_Reply(t, envs) ==
    /\ th[t].pc = "renew_relock"
    /\ NoneDone
    /\ GlobalHndRWLock = 0
    /\ GlobalHndRWLock' = 0
    /\ \E env \in envs, sched_ok \in BOOLEAN :
        LET h == th[t].handle
            in_sid == th[t].in_sid
            g == gena_subscribe(env, th[t].TimeOut)
            r == [th[t] EXCEPT !.TimeOut = g.TimeOut, !.SID = g.SID,
                               !.http = g.return_code, !.timostr = g.timostr]
            i == FindSub(ClientSubList[h], in_sid)
            sub == [ClientSubList[h][i] EXCEPT !.SID = g.SID]
            s == ScheduleGenaAutoRenew(timers, lastEventId, h, g.TimeOut, sub,
                                       sched_ok)
            list == [ClientSubList[h] EXCEPT ![i] = s.sub]
        IN  IF GetHandleInfo(h) # "HND_CLIENT"
            THEN /\ th' = [th EXCEPT ![t] = RenewReturn(r, "GENA_E_BAD_HANDLE")]
                 /\ UNCHANGED <<ClientSubList, timers, lastEventId>>
            ELSE IF g.return_code # "UPNP_E_SUCCESS"
            THEN /\ ClientSubList' =
                        [ClientSubList EXCEPT ![h] = RemoveIf(@, in_sid)]
                 /\ timers' = clientCancelRenew(timers, th[t].sub_copy)
                 /\ th' = [th EXCEPT ![t] = RenewReturn(r, g.return_code)]
                 /\ UNCHANGED lastEventId
            ELSE IF i = 0
            THEN /\ timers' = clientCancelRenew(timers, th[t].sub_copy)
                 /\ th' = [th EXCEPT ![t] = RenewReturn(r, "GENA_E_BAD_SID")]
                 /\ UNCHANGED <<ClientSubList, lastEventId>>
            ELSE /\ ClientSubList' =
                        [ClientSubList EXCEPT ![h] =
                            IF s.return_code # "UPNP_E_SUCCESS"
                            THEN RemoveIf(list, s.sub.SID)
                            ELSE list]
                 /\ timers' = clientCancelRenew(s.timers, th[t].sub_copy)
                 /\ lastEventId' = s.lastEventId
                 /\ th' = IF s.return_code = "UPNP_E_SUCCESS"
                          THEN NoteRenamed(
                                [th EXCEPT ![t] = RenewReturn(r, s.return_code)],
                                h, in_sid, g.SID)
                          ELSE [th EXCEPT ![t] = RenewReturn(r, s.return_code)]
    /\ UNCHANGED <<hndType, GlobalClientSubscribeMutex, nops, AUTO_RENEW_TIME>>
    /\ UNCHANGED pool

\* The thread of a genaRenewSubscription call has the handle lock again.
genaRenewSubscription_Record(t) == genaRenewSubscription_Reply(t, RenewEnvs)

\* ------------------------------------- AutoRenewSubscriptionJobWorker::work
\* The timer thread hands a due job to a worker: the job leaves the queue.
TimerFire(t) ==
    /\ CanStart(t)
    /\ \E e \in timers :
        /\ timers' = timers \ {e}
        /\ th' = [th EXCEPT ![t] =
                [Idle EXCEPT !.op = "timerjob", !.pc = "job_start",
                             !.handle = e.handle, !.in_sid = e.Sid,
                             !.TimeOut = e.TimeOut, !.eventId = e.eventId,
                             !.solo = Quiescent]]
    /\ nops' = nops + 1
    /\ UNCHANGED <<hndType, ClientSubList, GlobalHndRWLock,
                   GlobalClientSubscribeMutex, lastEventId, AUTO_RENEW_TIME>>
    /\ UNCHANGED pool

\* AutoRenewJob_Expired without the test of line 127: the job of a build
\* without auto-renewal calls genaRenewSubscription all the same.
AutoRenewJob_Expired_Renews(t) ==
    /\ th[t].pc = "job_start"
    /\ NoneDone
    /\ AUTO_RENEW_TIME = 0
    /\ RenewValidate(t, th[t])
    /\ UNCHANGED <<hndType, GlobalClientSubscribeMutex, lastEventId, nops,
                   AUTO_RENEW_TIME>>

\* Lines 127-132: the build without auto-renewal reports the expiry.
AutoRenewJob_Expired(t) ==
    /\ th[t].pc = "job_start"
    /\ NoneDone
    /\ AUTO_RENEW_TIME = 0
    /\ th' = [th EXCEPT ![t].pc = "job_cblock",
                         ![t].return_code = "UPNP_E_SUCCESS"]
    /\ UNCHANGED <<hndType, ClientSubList, GlobalHndRWLock,
                   GlobalClientSubscribeMutex, timers, lastEventId, nops,
                   AUTO_RENEW_TIME>>
    /\ UNCHANGED pool

\* Lines 133-136: the job calls genaRenewSubscription.
AutoRenewJob_Renew(t) ==
    /\ th[t].pc = "job_start"
    /\ NoneDone
    /\ AUTO_RENEW_TIME # 0
    /\ RenewValidate(t, th[t])
    /\ UNCHANGED <<hndType, GlobalClientSubscribeMutex, lastEventId, nops,
                   AUTO_RENEW_TIME>>

\* Lines 146-156: HandleReadLock, the handle check, the callback pointer,
\* HandleUnlock.
AutoRenewJob_GetCallback(t) ==
    /\ th[t].pc = "job_cblock"
    /\ NoneDone
    /\ GlobalHndRWLock = 0
    /\ GlobalHndRWLock' = 0
    /\ th' = [th EXCEPT ![t] =
            IF GetHandleInfo(th[t].handle) # "HND_CLIENT"
            THEN Finish(@, th[t].return_code)
            ELSE [@ EXCEPT !.pc = "job_cb"]]
    /\ UNCHANGED <<hndType, ClientSubList, GlobalClientSubscribeMutex, timers,
                   lastEventId, nops, AUTO_RENEW_TIME>>
    /\ UNCHANGED pool

\* Line 157: the upcall.
AutoRenewJob_Callback(t) ==
    /\ th[t].pc = "job_cb"
    /\ NoneDone
    /\ th' = [th EXCEPT ![t] =
            Finish([@ EXCEPT !.upcalls = Append(@,
                        [type |-> IF AUTO_RENEW_TIME = 0
                                  THEN "UPNP_EVENT_SUBSCRIPTION_EXPIRED"
                                  ELSE "UPNP_EVENT_AUTORENEWAL_FAILED",
                         Sid |-> th[t].in_sid,
                         ErrCode |-> th[t].return_code])],
                   th[t].return_code)]
    /\ UNCHANGED <<hndType, ClientSubList, GlobalHndRWLock,
                   GlobalClientSubscribeMutex, timers, lastEventId, nops,
                   AUTO_RENEW_TIME>>
    /\ UNCHANGED pool

\* -------------------------------------------------------- genaUnSubscribe
\* History only: every timer job in progress for SID sid of handle h, and
\* every renew call of the application with its request for that SID in
\* flight, is marked when genaUnSubscribe or genaUnregisterClient removes the
\* entries with that SID.
NoteRemoved(f, h, sid) ==
    [k \in Threads |->
        IF /\ \/ f[k].op = "timerjob" /\ f[k].pc \notin {"done", "gone"}
              \/ f[k].op = "renew" /\ f[k].pc \in {"renew_http", "renew_relock"}
           /\ f[k].handle = h /\ f[k].in_sid = sid
        THEN [f[k] EXCEPT !.removed = TRUE]
        ELSE f[k]]

\* genaUnSubscribe_Validate made idempotent: a SID that is not in the list is
\* reported as success instead of GENA_E_BAD_SID (line 471).
genaUnSubscribe_Validate_Idempotent(t) ==
    /\ CanStart(t)
    /\ GlobalHndRWLock = 0
    /\ GlobalHndRWLock' = 0
    /\ \E h \in Handles, sid \in Sids :
        LET r == [Idle EXCEPT !.op = "unsubscribe", !.handle = h, !.in_sid = sid]
            i == FindSub(ClientSubList[h], sid)
        IN  th' = [th EXCEPT ![t] =
                IF GetHandleInfo(h) # "HND_CLIENT"
                THEN Finish(r, "GENA_E_BAD_HANDLE")
                ELSE IF i = 0
                THEN Finish(r, "UPNP_E_SUCCESS")
                ELSE [r EXCEPT !.pc = "unsub_http",
                               !.sub_copy = ClientSubList[h][i]]]
    /\ nops' = nops + 1
    /\ UNCHANGED <<hndType, ClientSubList, GlobalClientSubscribeMutex, timers,
                   lastEventId, AUTO_RENEW_TIME>>
    /\ UNCHANGED pool

\* Lines 460-474: HandleLock, the handle and SID checks, the copy,
\* HandleUnlock.
genaUnSubscribe_Validate(t) ==
    /\ CanStart(t)
    /\ GlobalHndRWLock = 0
    /\ GlobalHndRWLock' = 0
    /\ \E h \in Handles, sid \in Sids :
        LET r == [Idle EXCEPT !.op = "unsubscribe", !.handle = h, !.in_sid = sid]
            i == FindSub(ClientSubList[h], sid)
        IN  th' = [th EXCEPT ![t] =
                IF GetHandleInfo(h) # "HND_CLIENT"
                THEN Finish(r, "GENA_E_BAD_HANDLE")
                ELSE IF i = 0
                THEN Finish(r, "GENA_E_BAD_SID")
                ELSE [r EXCEPT !.pc = "unsub_http",
                               !.sub_copy = ClientSubList[h][i]]]
    /\ nops' = nops + 1
    /\ UNCHANGED <<hndType, ClientSubList, GlobalClientSubscribeMutex, timers,
                   lastEventId, AUTO_RENEW_TIME>>
    /\ UNCHANGED pool

\* Lines 476-477: gena_unsubscribe returns and clientCancelRenew cancels the
\* job the copy names; the thread goes for the handle lock.
genaUnSubscribe_Http(t) ==
    /\ th[t].pc = "unsub_http"
    /\ NoneDone
    /\ th' = [th EXCEPT ![t].pc = "unsub_relock"]
    /\ timers' = clientCancelRenew(timers, th[t].sub_copy)
    /\ UNCHANGED <<hndType, ClientSubList, GlobalHndRWLock,
                   GlobalClientSubscribeMutex, lastEventId, nops,
                   AUTO_RENEW_TIME>>
    /\ UNCHANGED pool

\* genaUnSubscribe_Remove made to depend on the request: the entry is removed
\* and success returned only when the publisher accepted the UNSUBSCRIBE.
genaUnSubscribe_Remove_IfAccepted(t) ==
    /\ th[t].pc = "unsub_relock"
    /\ NoneDone
    /\ GlobalHndRWLock = 0
    /\ GlobalHndRWLock' = 0
    /\ \E env \in UnsubscribeEnvs :
        LET h == th[t].handle
            r == [th[t] EXCEPT !.http = gena_unsubscribe(env)]
        IN  IF GetHandleInfo(h) # "HND_CLIENT"
            THEN /\ th' = [th EXCEPT ![t] = Finish(r, "GENA_E_BAD_HANDLE")]
                 /\ UNCHANGED ClientSubList
            ELSE IF r.http # "UPNP_E_SUCCESS"
            THEN /\ th' = [th EXCEPT ![t] = Finish(r, r.http)]
                 /\ UNCHANGED ClientSubList
            ELSE /\ ClientSubList' =
                        [ClientSubList EXCEPT ![h] = RemoveIf(@, th[t].in_sid)]
                 /\ th' = NoteRemoved(
                        [th EXCEPT ![t] = Finish(r, "UPNP_E_SUCCESS")],
                        h, th[t].in_sid)
    /\ UNCHANGED <<hndType, GlobalClientSubscribeMutex, timers, lastEventId,
                   nops, AUTO_RENEW_TIME>>
    /\ UNCHANGED pool

\* Lines 479-488: HandleLock, the re-validation, remove_if by in_sid,
\* HandleUnlock.  The result of gena_unsubscribe (http) plays no part.
genaUnSubscribe_Remove(t) ==
    /\ th[t].pc = "unsub_relock"
    /\ NoneDone
    /\ GlobalHndRWLock = 0
    /\ GlobalHndRWLock' = 0
    /\ \E env \in UnsubscribeEnvs :
        LET h == th[t].handle
            r == [th[t] EXCEPT !.http = gena_unsubscribe(env)]
        IN  IF GetHandleInfo(h) # "HND_CLIENT"
            THEN /\ th' = [th EXCEPT ![t] = Finish(r, "GENA_E_BAD_HANDLE")]
                 /\ UNCHANGED ClientSubList
            ELSE /\ ClientSubList' =
                        [ClientSubList EXCEPT ![h] = RemoveIf(@, th[t].in_sid)]
                 /\ th' = NoteRemoved(
                        [th EXCEPT ![t] = Finish(r, "UPNP_E_SUCCESS")],
                        h, th[t].in_sid)
    /\ UNCHANGED <<hndType, GlobalClientSubscribeMutex, timers, lastEventId,
                   nops, AUTO_RENEW_TIME>>
    /\ UNCHANGED pool

\* --------------------------------------------------- genaUnregisterClient
\* Lines 431-445 and 451-454 for record r of thread t: one turn of the loop.
\* HandleLock; an invalid handle returns; an empty list is cleared and the
\* call returns; otherwise the front entry is copied, every entry with its
\* SID is removed, and HandleUnlock.
UnregisterTurn(t, r) ==
    /\ GlobalHndRWLock = 0
    /\ GlobalHndRWLock' = 0
    /\ LET h == r.handle
       IN  IF GetHandleInfo(h) # "HND_CLIENT"
           THEN /\ th' = [th EXCEPT ![t] = Finish(r, "GENA_E_BAD_HANDLE")]
                /\ UNCHANGED ClientSubList
           ELSE IF ClientSubList[h] = <<>>
           THEN /\ th' = [th EXCEPT ![t] = Finish(r, "UPNP_E_SUCCESS")]
                /\ ClientSubList' = [ClientSubList EXCEPT ![h] = <<>>]
           ELSE /\ th' = NoteRemoved(
                        [th EXCEPT ![t] =
                            [r EXCEPT !.pc = "unreg_http",
                                      !.sub_copy = Head(ClientSubList[h])]],
                        h, Head(ClientSubList[h]).SID)
                /\ ClientSubList' =
                        [ClientSubList EXCEPT ![h] =
                            RemoveIf(@, Head(ClientSubList[h]).SID)]
    /\ UNCHANGED pool

\* The library calls genaUnregisterClient: the first turn of the loop.
genaUnregisterClient_Start(t) ==
    /\ CanStart(t)
    /\ \E h \in Handles :
        UnregisterTurn(t, [Idle EXCEPT !.op = "unregister", !.handle = h])
    /\ nops' = nops + 1
    /\ UNCHANGED <<hndType, GlobalClientSubscribeMutex, timers, lastEventId,
                   AUTO_RENEW_TIME>>
    /\ UNCHANGED pool

\* Lines 447-448: gena_unsubscribe returns and clientCancelRenew cancels the
\* job the copy names; the thread goes for the handle lock.
genaUnregisterClient_Http(t) ==
    /\ th[t].pc = "unreg_http"
    /\ NoneDone
    /\ th' = [th EXCEPT ![t].pc = "unreg_loop", ![t].sub_copy = NoSub]
    /\ timers' = clientCancelRenew(timers, th[t].sub_copy)
    /\ UNCHANGED <<hndType, ClientSubList, GlobalHndRWLock,
                   GlobalClientSubscribeMutex, lastEventId, nops,
                   AUTO_RENEW_TIME>>
    /\ UNCHANGED pool

\* The next turn of the loop.
genaUnregisterClient_Loop(t) ==
    /\ th[t].pc = "unreg_loop"
    /\ NoneDone
    /\ UnregisterTurn(t, th[t])
    /\ UNCHANGED <<hndType, GlobalClientSubscribeMutex, timers, lastEventId,
                   nops, AUTO_RENEW_TIME>>

\* The enclosing library frees the client handle (under the handle lock).
FreeHandle ==
    /\ NoneDone
    /\ GlobalHndRWLock = 0
    /\ \E h \in Handles :
        /\ hndType[h] = "HND_CLIENT"
        /\ hndType' = [hndType EXCEPT ![h] = "HND_INVALID"]
        /\ ClientSubList' = [ClientSubList EXCEPT ![h] = <<>>]
    /\ UNCHANGED <<GlobalHndRWLock, GlobalClientSubscribeMutex, timers,
                   lastEventId, th, nops, AUTO_RENEW_TIME>>
    /\ UNCHANGED pool

\* ---------------------------------------- gena_process_notification_event
\* The calls of genaSubscribe that are between sending SUBSCRIBE and
\* recording its reply.
SubscribesInFlight ==
    {k \in Threads : th[k].pc \in {"sub_http", "sub_relock"}}

\* Line 676: sscanf(seq, "%d%1c", &eventKey, cb).  %d skips white space,
\* takes an optional sign and a run of digits; %1c takes the next character
\* if there is one.  count is the return value: -1 at the end of input before
\* any conversion, 0 when no number is there, 1 for a number and nothing
\* after it, 2 for a number followed by anything.
sscanf(seq) ==
    LET a == SkipSpace(seq)
        signed == a # <<>> /\ Head(a) \in {"-", "+"}
        b == IF signed THEN Tail(a) ELSE a
        n == DigitRun(b)
        v == Decimal(b, n)
    IN  IF a = <<>> THEN [count |-> -1, eventKey |-> 0]
        ELSE IF n = 0 THEN [count |-> 0, eventKey |-> 0]
        ELSE [count |-> IF Len(b) > n THEN 2 ELSE 1,
              eventKey |-> IF Head(a) = "-" THEN 0 - v ELSE v]

\* NotifyValidation with the SEQ checks of lines 668-681 made before the SID
\* check of lines 659-665.
NotifyValidation_SeqFirst(req) ==
    IF ~req.has_seq THEN HTTP_BAD_REQUEST
    ELSE IF sscanf(req.seq).count # 1 THEN HTTP_BAD_REQUEST
    ELSE IF ~req.has_sid THEN HTTP_PRECONDITION_FAILED
    ELSE IF ~req.has_nt \/ ~req.has_nts THEN HTTP_BAD_REQUEST
    ELSE IF req.nt # "upnp:event" \/ req.nts # "upnp:propchange"
    THEN HTTP_PRECONDITION_FAILED
    ELSE IF ~req.xml_type \/ req.postdata_empty THEN HTTP_BAD_REQUEST
    ELSE IF ~req.parse_ok THEN HTTP_BAD_REQUEST
    ELSE 0

\* Lines 659-715: the checks made before the handle lock is taken, in the
\* code's order; the status of the first one that fails, 0 if none does.
NotifyValidation(req) ==
    IF ~req.has_sid THEN HTTP_PRECONDITION_FAILED
    ELSE IF ~req.has_seq THEN HTTP_BAD_REQUEST
    ELSE IF sscanf(req.seq).count # 1 THEN HTTP_BAD_REQUEST
    ELSE IF ~req.has_nt \/ ~req.has_nts THEN HTTP_BAD_REQUEST
    ELSE IF req.nt # "upnp:event" \/ req.nts # "upnp:propchange"
    THEN HTTP_PRECONDITION_FAILED
    ELSE IF ~req.xml_type \/ req.postdata_empty THEN HTTP_BAD_REQUEST
    ELSE IF ~req.parse_ok THEN HTTP_BAD_REQUEST
    ELSE 0

\* NotifyLookup without the test of line 732: a miss goes for the subscribe
\* lock and the retry whatever the event key.
NotifyLookup_RetryAlways(req) ==
    LET status == NotifyValidation(req)
        r == [Idle EXCEPT !.op = "notify", !.in_sid = req.sid,
                          !.eventKey = sscanf(req.seq).eventKey,
                          !.propset = req.propset]
        h == GetClientHandleInfo
    IN  IF status # 0
        THEN [Finish([Idle EXCEPT !.op = "notify"], "NONE") EXCEPT !.status = status]
        ELSE IF h = 0
        THEN [Finish(r, "NONE") EXCEPT !.status = HTTP_PRECONDITION_FAILED]
        ELSE IF FindSub(ClientSubList[h], req.sid) # 0
        THEN [r EXCEPT !.pc = "notify_cb", !.status = HTTP_OK,
                       !.handle = h, !.SID = req.sid]
        ELSE [r EXCEPT !.pc = "notify_sublock", !.raced = SubscribesInFlight]

\* Lines 659-773, first part, and 775-788: the validation; a request that
\* fails it is answered at once.  Otherwise HandleLock, the active client, the
\* lookup by SID.  A hit answers 200 and copies the callback; a miss with a
\* non-zero key answers 412; a miss with key 0 releases the handle lock and
\* goes for the subscribe lock.
NotifyLookup(req) ==
    LET status == NotifyValidation(req)
        r == [Idle EXCEPT !.op = "notify", !.in_sid = req.sid,
                          !.eventKey = sscanf(req.seq).eventKey,
                          !.propset = req.propset]
        h == GetClientHandleInfo
    IN  IF status # 0
        THEN [Finish([Idle EXCEPT !.op = "notify"], "NONE") EXCEPT !.status = status]
        ELSE IF h = 0
        THEN [Finish(r, "NONE") EXCEPT !.status = HTTP_PRECONDITION_FAILED]
        ELSE IF FindSub(ClientSubList[h], req.sid) # 0
        THEN [r EXCEPT !.pc = "notify_cb", !.status = HTTP_OK,
                       !.handle = h, !.SID = req.sid]
        ELSE IF r.eventKey = 0
        THEN [r EXCEPT !.pc = "notify_sublock", !.raced = SubscribesInFlight]
        ELSE [Finish(r, "NONE") EXCEPT !.status = HTTP_PRECONDITION_FAILED]

\* A NOTIFY transaction arrives and runs up to its first wait.
gena_process_notification_event_Lookup(t) ==
    /\ CanStart(t)
    /\ GlobalHndRWLock = 0
    /\ GlobalHndRWLock' = 0
    /\ \E req \in ArrivingRequests : th' = [th EXCEPT ![t] = NotifyLookup(req)]
    /\ nops' = nops + 1
    /\ UNCHANGED <<hndType, ClientSubList, GlobalClientSubscribeMutex, timers,
                   lastEventId, AUTO_RENEW_TIME>>
    /\ UNCHANGED pool

\* The same step for a transaction that has been received and not yet
\* looked at; the request stays on record.
gena_process_notification_event_Arrived(t) ==
    /\ th[t].pc = "notify_arrived"
    /\ GlobalHndRWLock = 0
    /\ GlobalHndRWLock' = 0
    /\ th' = [th EXCEPT ![t] = [NotifyLookup(@.req) EXCEPT !.req = th[t].req]]
    /\ UNCHANGED <<hndType, ClientSubList, GlobalClientSubscribeMutex, timers,
                   lastEventId, nops, AUTO_RENEW_TIME>>
    /\ UNCHANGED pool

\* gena_process_notification_event_Lock without the SubscribeLock of line 741:
\* the retry does not wait for a subscribe call in progress.
gena_process_notification_event_Lock_NoWait(t) ==
    /\ th[t].pc = "notify_sublock"
    /\ NoneDone
    /\ th' = [th EXCEPT ![t].pc = "notify_relock"]
    /\ UNCHANGED <<hndType, ClientSubList, GlobalHndRWLock,
                   GlobalClientSubscribeMutex, timers, lastEventId, nops,
                   AUTO_RENEW_TIME>>
    /\ UNCHANGED pool

\* Line 741: SubscribeLock.
gena_process_notification_event_Lock(t) ==
    /\ th[t].pc = "notify_sublock"
    /\ NoneDone
    /\ GlobalClientSubscribeMutex = 0
    /\ GlobalClientSubscribeMutex' = t
    /\ th' = [th EXCEPT ![t].pc = "notify_relock"]
    /\ UNCHANGED <<hndType, ClientSubList, GlobalHndRWLock, timers,
                   lastEventId, nops, AUTO_RENEW_TIME>>
    /\ UNCHANGED pool

\* gena_process_notification_event_Retry without the SubscribeUnlock of line
\* 763: a hit on the retry goes on to the upcall with the subscribe lock held.
gena_process_notification_event_Retry_KeepLock(t) ==
    /\ th[t].pc = "notify_relock"
    /\ NoneDone
    /\ GlobalHndRWLock = 0
    /\ GlobalHndRWLock' = 0
    /\ LET h == GetClientHandleInfo
       IN  IF h = 0 \/ FindSub(ClientSubList[h], th[t].in_sid) = 0
           THEN /\ GlobalClientSubscribeMutex' = 0
                /\ th' = [th EXCEPT ![t] =
                        [Finish(@, "NONE") EXCEPT !.status = HTTP_PRECONDITION_FAILED]]
           ELSE /\ GlobalClientSubscribeMutex' = t
                /\ th' = [th EXCEPT ![t] =
                        [@ EXCEPT !.pc = "notify_cb", !.status = HTTP_OK,
                                  !.handle = h, !.SID = th[t].in_sid]]
    /\ UNCHANGED <<hndType, ClientSubList, timers, lastEventId, nops,
                   AUTO_RENEW_TIME>>
    /\ UNCHANGED pool

\* gena_process_notification_event_Retry without the response of line 755: a
\* miss on the retry returns without answering the publisher.
gena_process_notification_event_Retry_NoAnswer(t) ==
    /\ th[t].pc = "notify_relock"
    /\ NoneDone
    /\ GlobalHndRWLock = 0
    /\ GlobalHndRWLock' = 0
    /\ GlobalClientSubscribeMutex' = 0
    /\ LET h == GetClientHandleInfo
       IN  th' = [th EXCEPT ![t] =
                IF h = 0
                THEN [Finish(@, "NONE") EXCEPT !.status = HTTP_PRECONDITION_FAILED]
                ELSE IF FindSub(ClientSubList[h], th[t].in_sid) = 0
                THEN Finish(@, "NONE")
                ELSE [@ EXCEPT !.pc = "notify_cb", !.status = HTTP_OK,
                               !.handle = h, !.SID = th[t].in_sid]]
    /\ UNCHANGED <<hndType, ClientSubList, timers, lastEventId, nops,
                   AUTO_RENEW_TIME>>
    /\ UNCHANGED pool

\* Lines 744-763 and 775-788: HandleLock with the subscribe lock held, the
\* second lookup; a miss answers 412; a hit releases the subscribe lock,
\* answers 200 and copies the callback; HandleUnlock.
gena_process_notification_event_Retry(t) ==
    /\ th[t].pc = "notify_relock"
    /\ NoneDone
    /\ GlobalHndRWLock = 0
    /\ GlobalHndRWLock' = 0
    /\ GlobalClientSubscribeMutex' = 0
    /\ LET h == GetClientHandleInfo
       IN  th' = [th EXCEPT ![t] =
                IF h = 0 \/ FindSub(ClientSubList[h], th[t].in_sid) = 0
                THEN [Finish(@, "NONE") EXCEPT !.status = HTTP_PRECONDITION_FAILED]
                ELSE [@ EXCEPT !.pc = "notify_cb", !.status = HTTP_OK,
                               !.handle = h, !.SID = th[t].in_sid]]
    /\ UNCHANGED <<hndType, ClientSubList, timers, lastEventId, nops,
                   AUTO_RENEW_TIME>>
    /\ UNCHANGED pool

\* The event structure of lines 779-782 as thread t hands it to the callback.
event_struct(t) ==
    [type |-> "UPNP_EVENT_RECEIVED", Sid |-> th[t].SID,
     EventKey |-> th[t].eventKey, ChangedVariables |-> th[t].propset]

\* gena_process_notification_event_Callback with the call of line 794 made
\* twice.
gena_process_notification_event_Callback_Twice(t) ==
    /\ th[t].pc = "notify_cb"
    /\ NoneDone
    /\ th' = [th EXCEPT ![t] =
            Finish([@ EXCEPT !.upcalls = @ \o <<event_struct(t), event_struct(t)>>],
                   "NONE")]
    /\ UNCHANGED <<hndType, ClientSubList, GlobalHndRWLock,
                   GlobalClientSubscribeMutex, timers, lastEventId, nops,
                   AUTO_RENEW_TIME>>
    /\ UNCHANGED pool

\* Line 794: the upcall.
gena_process_notification_event_Callback(t) ==
    /\ th[t].pc = "notify_cb"
    /\ NoneDone
    /\ th' = [th EXCEPT ![t] =
            Finish([@ EXCEPT !.upcalls = Append(@, event_struct(t))], "NONE")]
    /\ UNCHANGED <<hndType, ClientSubList, GlobalHndRWLock,
                   GlobalClientSubscribeMutex, timers, lastEventId, nops,
                   AUTO_RENEW_TIME>>
    /\ UNCHANGED pool

\* ------------------------------------------------------------------- Next
ThreadStep(t) ==
    \/ Return(t)
    \/ genaSubscribe_Validate(t)
    \/ genaSubscribe_BadHandle(t)
    \/ genaSubscribe_Lock(t)
    \/ genaSubscribe_Http(t)
    \/ genaSubscribe_Record(t)
    \/ genaRenewSubscription_Validate(t)
    \/ genaRenewSubscription_Http(t)
    \/ genaRenewSubscription_Record(t)
    \/ TimerFire(t)
    \/ AutoRenewJob_Expired(t)
    \/ AutoRenewJob_Renew(t)
    \/ AutoRenewJob_GetCallback(t)
    \/ AutoRenewJob_Callback(t)
    \/ genaUnSubscribe_Validate(t)
    \/ genaUnSubscribe_Http(t)
    \/ genaUnSubscribe_Remove(t)
    \/ genaUnregisterClient_Start(t)
    \/ genaUnregisterClient_Http(t)
    \/ genaUnregisterClient_Loop(t)
    \/ gena_process_notification_event_Lookup(t)
    \/ gena_process_notification_event_Lock(t)
    \/ gena_process_notification_event_Retry(t)
    \/ gena_process_notification_event_Callback(t)

Next == FreeHandle \/ \E t \in Threads : ThreadStep(t)

Spec == Init /\ [][Next]_vars

\* Every thread that can take a step eventually takes one: each call runs on
\* a thread of its own and the scheduler starves none.
FairSpec == Spec /\ \A t \in Threads : WF_vars(ThreadStep(t))

\* ------------------------------------------- one NOTIFY transaction alone
\* A client that holds no subscription or one that never expires, and one
\* NOTIFY transaction, any of NotifyRequests, received and not yet handled.
InitNotify ==
    /\ hndType = [h \in Handles |-> IF h = 1 THEN "HND_CLIENT" ELSE "HND_INVALID"]
    /\ \E l \in {<<>>, <<[SID |-> "uuid:a", eventURL |-> PublisherURL,
                          renewEventId |-> -1]>>} :
          ClientSubList = [h \in Handles |-> IF h = 1 THEN l ELSE <<>>]
    /\ GlobalHndRWLock = 0
    /\ GlobalClientSubscribeMutex = 0
    /\ timers = {}
    /\ lastEventId = 1
    /\ \E req \in NotifyRequests :
          th = [t \in Threads |->
                  IF t = 1
                  THEN [Idle EXCEPT !.op = "notify", !.pc = "notify_arrived",
                                    !.req = req]
                  ELSE Idle]
    /\ nops = 1
    /\ AUTO_RENEW_TIME \in AutoRenewConfigs
    /\ NoPool

NextNotify ==
    \E t \in Threads :
        \/ gena_process_notification_event_Arrived(t)
        \/ gena_process_notification_event_Lock(t)
        \/ gena_process_notification_event_Retry(t)
        \/ gena_process_notification_event_Callback(t)
        \/ Return(t)

SpecNotify == InitNotify /\ [][NextNotify]_vars

\* ------------------------------------- one subscribe or renew call alone
\* A client that holds no subscription, or one with its renewal job pending,
\* and no call in progress.
InitSubscribe ==
    /\ hndType = [h \in Handles |-> IF h = 1 THEN "HND_CLIENT" ELSE "HND_INVALID"]
    /\ GlobalHndRWLock = 0
    /\ GlobalClientSubscribeMutex = 0
    /\ th = [t \in Threads |-> Idle]
    /\ nops = 0
    /\ AUTO_RENEW_TIME \in AutoRenewConfigs
    /\ \/ /\ ClientSubList = [h \in Handles |-> <<>>]
          /\ timers = {}
          /\ lastEventId = 1
       \/ /\ ClientSubList =
                [h \in Handles |->
                    IF h = 1
                    THEN <<[SID |-> "uuid:a", eventURL |-> PublisherURL,
                            renewEventId |-> 1]>>
                    ELSE <<>>]
          /\ timers = {[eventId |-> 1, handle |-> 1, Sid |-> "uuid:a",
                        PublisherUrl |-> PublisherURL, TimeOut |-> 1800,
                        delay |-> 1800 - AUTO_RENEW_TIME]}
          /\ lastEventId = 2
    /\ NoPool

\* The first call is genaSubscribe, with any requested timeout.
genaSubscribe_Alone(t) == nops = 0 /\ genaSubscribe_Call(t, AnyReqTimeouts)

\* Line 517: gena_subscribe returns, its request having had any outcome; the
\* outcome stays on record.
genaSubscribe_AnyHttp(t) ==
    /\ th[t].pc = "sub_http"
    /\ NoneDone
    /\ \E env \in AnySubscribeEnvs :
        th' = [th EXCEPT ![t].pc = "sub_relock", ![t].env = env]
    /\ UNCHANGED <<hndType, ClientSubList, GlobalHndRWLock,
                   GlobalClientSubscribeMutex, timers, lastEventId, nops,
                   AUTO_RENEW_TIME>>
    /\ UNCHANGED pool

\* The thread has the handle lock again and looks at that outcome.
genaSubscribe_AnyReply(t) == genaSubscribe_Reply(t, {th[t].env})

\* The first call is genaRenewSubscription, with any requested timeout.
genaRenewSubscription_Alone(t) ==
    nops = 0 /\ genaRenewSubscription_Call(t, AnyReqTimeouts)

\* Line 580: gena_subscribe returns, its request having had any outcome; the
\* stored eventURL is one that parsed.  The outcome stays on record.
genaRenewSubscription_AnyHttp(t) ==
    /\ th[t].pc = "renew_http"
    /\ NoneDone
    /\ \E env \in {e \in AnySubscribeEnvs : e.url_ok} :
        th' = [th EXCEPT ![t].pc = "renew_relock", ![t].env = env]
    /\ UNCHANGED <<hndType, ClientSubList, GlobalHndRWLock,
                   GlobalClientSubscribeMutex, timers, lastEventId, nops,
                   AUTO_RENEW_TIME>>
    /\ UNCHANGED pool

\* The thread has the handle lock again and looks at that outcome.
genaRenewSubscription_AnyReply(t) ==
    genaRenewSubscription_Reply(t, {th[t].env})

NextSubscribe ==
    \E t \in Threads :
        \/ genaSubscribe_Alone(t)
        \/ genaSubscribe_BadHandle(t)
        \/ genaSubscribe_Lock(t)
        \/ genaSubscribe_AnyHttp(t)
        \/ genaSubscribe_AnyReply(t)
        \/ genaRenewSubscription_Alone(t)
        \/ genaRenewSubscription_AnyHttp(t)
        \/ genaRenewSubscription_AnyReply(t)
        \/ Return(t)

SpecSubscribe == InitSubscribe /\ [][NextSubscribe]_vars

\* ============================================================ ThreadPool
\* ThreadPool::Internal of threadutil/ThreadPool.cpp, its worker threads and
\* the threads that call addJob, addPersistent and shutdown.  A step is one
\* critical section of ThreadPool::Internal::mutex (from a lock or the
\* return of a condition wait to the next wait or unlock) or the return of a
\* job's function.

\* No GENA: the state of every execution that is about the thread pool alone.
NoGena ==
    /\ hndType = [h \in Handles |-> "HND_INVALID"]
    /\ ClientSubList = [h \in Handles |-> <<>>]
    /\ GlobalHndRWLock = 0
    /\ GlobalClientSubscribeMutex = 0
    /\ timers = {}
    /\ lastEventId = 1
    /\ th = [t \in Threads |-> Idle]
    /\ nops = 0
    /\ AUTO_RENEW_TIME = 0

\* The ids of the jobs in queue q.
Ids(q) == {q[i].id : i \in 1..Len(q)}

\* Number of queued jobs (lines 524 and 622).
TotalJobs(p) == Len(p.highJobQ) + Len(p.lowJobQ) + Len(p.medJobQ)

\* bumpPriority (lines 295-330): the queues after any number of turns of its
\* loop.  Whether the front job of medJobQ or of lowJobQ has waited long
\* enough (lines 304 and 316) depends on the clock, so each test may go
\* either way; a job moves to the back of the next higher queue.
RECURSIVE bumpPriority(_)
bumpPriority(p) ==
    {p}
    \cup (IF p.medJobQ # <<>>
          THEN bumpPriority([p EXCEPT !.medJobQ = Tail(@),
                                      !.highJobQ = Append(@, Head(p.medJobQ))])
          ELSE {})
    \cup (IF p.lowJobQ # <<>>
          THEN bumpPriority([p EXCEPT !.lowJobQ = Tail(@),
                                      !.medJobQ = Append(@, Head(p.lowJobQ))])
          ELSE {})

\* ------------------------------------------------------------ WorkerThread
\* Lines 466-468: exit_function.
WorkerExit(w, p) ==
    /\ tp' = [p EXCEPT !.totalThreads = @ - 1]
    /\ wt' = [wt EXCEPT ![w] = NoWorker]
    /\ gh' = gh

\* Lines 437-458: the worker takes job j out of pool state p.
WorkerTakes(w, p, j, persistent) ==
    /\ tp' = [p EXCEPT !.busyThreads = @ + 1]
    /\ wt' = [wt EXCEPT ![w] = [pc |-> "run", job |-> j,
                                persistent |-> persistent]]
    /\ gh' = [gh EXCEPT !.taken = @ \cup {j.id}]

\* WorkerSelect with the medium queue looked at before the high one.
WorkerSelect_MedFirst(w, q) ==
    IF q.persistentJob # NoJob
    THEN WorkerTakes(w, [q EXCEPT !.persistentJob = NoJob,
                                  !.persistentThreads = @ + 1],
                     q.persistentJob, 1)
    ELSE IF q.medJobQ # <<>>
    THEN WorkerTakes(w, [q EXCEPT !.medJobQ = Tail(@)], Head(q.medJobQ), 0)
    ELSE IF q.highJobQ # <<>>
    THEN WorkerTakes(w, [q EXCEPT !.highJobQ = Tail(@)], Head(q.highJobQ), 0)
    ELSE IF q.lowJobQ # <<>>
    THEN WorkerTakes(w, [q EXCEPT !.lowJobQ = Tail(@)], Head(q.lowJobQ), 0)
    ELSE WorkerExit(w, q)

\* Lines 425-453: the persistent job if there is one, else the front of the
\* first queue that is not empty, high, medium, low.
WorkerSelect(w, q) ==
    IF q.persistentJob # NoJob
    THEN WorkerTakes(w, [q EXCEPT !.persistentJob = NoJob,
                                  !.persistentThreads = @ + 1],
                     q.persistentJob, 1)
    ELSE IF q.highJobQ # <<>>
    THEN WorkerTakes(w, [q EXCEPT !.highJobQ = Tail(@)], Head(q.highJobQ), 0)
    ELSE IF q.medJobQ # <<>>
    THEN WorkerTakes(w, [q EXCEPT !.medJobQ = Tail(@)], Head(q.medJobQ), 0)
    ELSE IF q.lowJobQ # <<>>
    THEN WorkerTakes(w, [q EXCEPT !.lowJobQ = Tail(@)], Head(q.lowJobQ), 0)
    ELSE WorkerExit(w, q)

\* Lines 392-458 from the test of the wait loop on, for pool state p and
\* worker locals r: the worker exits when it has been idle too long or is
\* one too many, waits when there is nothing to do, exits when the pool is
\* shutting down, and takes a job otherwise.  retCode is the result of the
\* last condition wait.
WorkerCheck(w, p, r, retCode) ==
    IF /\ p.lowJobQ = <<>> /\ p.medJobQ = <<>> /\ p.highJobQ = <<>>
       /\ p.persistentJob = NoJob /\ ~p.shuttingdown
    THEN IF \/ retCode = "timeout" /\ p.totalThreads > attr.minThreads
            \/ attr.maxThreads # INFINITE_THREADS
                    /\ p.totalThreads > attr.maxThreads
         THEN WorkerExit(w, p)
         ELSE /\ tp' = p
              /\ wt' = [wt EXCEPT ![w] = [r EXCEPT !.pc = "wait"]]
              /\ gh' = gh
    ELSE \E q \in bumpPriority(p) :
            IF q.shuttingdown THEN WorkerExit(w, q) ELSE WorkerSelect(w, q)

\* Lines 366-370: the new thread counts itself and releases its creator.
WorkerThread_Start(w) ==
    /\ wt[w].pc = "start"
    /\ tp' = [tp EXCEPT !.totalThreads = @ + 1,
                        !.pendingWorkerThreadStart = 0]
    /\ wt' = [wt EXCEPT ![w].pc = "loop"]
    /\ UNCHANGED <<call, gh>>
    /\ UNCHANGED gena

\* Lines 375-458: the top of the loop, after start-up or after a job: the
\* finished job is deleted and uncounted, then the worker looks for work.
\* The local persistent is not read again before it is next assigned.
WorkerThread_Loop(w) ==
    /\ wt[w].pc = "loop"
    /\ LET r == wt[w]
           p == [tp EXCEPT
                    !.busyThreads = IF r.job # NoJob THEN @ - 1 ELSE @,
                    !.persistentThreads = IF r.persistent = 1 THEN @ - 1 ELSE @]
       IN  WorkerCheck(w, p, [r EXCEPT !.job = NoJob, !.persistent = -1],
                       "no_timeout")
    /\ UNCHANGED call
    /\ UNCHANGED gena

\* Line 410: the condition wait returns, notified, timed out or for no
\* reason, and the worker tests the loop condition again.
WorkerThread_Wake(w) ==
    /\ wt[w].pc = "wait"
    /\ \E retCode \in {"no_timeout", "timeout"} :
            WorkerCheck(w, tp, wt[w], retCode)
    /\ UNCHANGED call
    /\ UNCHANGED gena

\* Line 461: the job's function returns.
WorkerThread_JobReturns(w) ==
    /\ wt[w].pc = "run"
    /\ wt' = [wt EXCEPT ![w].pc = "loop"]
    /\ UNCHANGED <<tp, call, gh>>
    /\ UNCHANGED gena

\* ------------------------------------------------- calls of the pool's API
\* Call c is the next to start: calls are numbered in the order they start.
CanCall(c) ==
    /\ call[c].pc = "idle"
    /\ \A k \in Calls : k < c => call[k].pc # "idle"

\* A call that has returned: its locals are gone.
Ended(r, ret) ==
    [NoCall EXCEPT !.op = r.op, !.pc = "done", !.cw = r.cw, !.ret = ret]

\* Lines 644-650 of addJob: the call returns 0.
addJob_Return(c, p, r) ==
    /\ tp' = p
    /\ call' = [call EXCEPT ![c] = Ended(r, "0")]
    /\ UNCHANGED <<wt, gh>>

\* Lines 594-612 of addPersistent: the job becomes the pending persistent
\* job, replacing one that is still pending, and the caller waits until a
\* worker has picked it up.
addPersistent_Post(c, p, r) ==
    /\ tp' = [p EXCEPT !.persistentJob = r.job]
    /\ call' = [call EXCEPT ![c] = [r EXCEPT !.pc = "ap_wait"]]
    /\ UNCHANGED <<wt, gh>>

\* createWorker returned ret to call c: addWorker gives up when it failed
\* (lines 528-530), addPersistent does not look at it (line 584).
createWorker_Failed(c, p, r) ==
    IF r.op = "addJob"
    THEN addJob_Return(c, p, r)
    ELSE addPersistent_Post(c, p, r)

\* createWorker without the test of lines 492-495: a thread is started
\* whatever the number of threads.
createWorker_NoMax(c, p, r) ==
    IF p.pendingWorkerThreadStart # 0
    THEN /\ tp' = p
         /\ call' = [call EXCEPT ![c] = [r EXCEPT !.pc = "cw_pending"]]
         /\ UNCHANGED <<wt, gh>>
    ELSE /\ \E w \in Workers :
            /\ wt[w].pc = "none"
            /\ \A v \in Workers : v < w => wt[v].pc # "none"
            /\ wt' = [wt EXCEPT ![w].pc = "start"]
         /\ tp' = [p EXCEPT !.pendingWorkerThreadStart = 1]
         /\ call' = [call EXCEPT ![c] = [r EXCEPT !.pc = "cw_started"]]
         /\ gh' = gh

\* createWorker (lines 485-512) up to its first wait or its return: it waits
\* while another worker is starting, returns EMAXTHREADS when one more
\* thread would exceed attr.maxThreads, and otherwise starts a thread, sets
\* pendingWorkerThreadStart and waits for the thread to clear it.
createWorker(c, p, r) ==
    IF p.pendingWorkerThreadStart # 0
    THEN /\ tp' = p
         /\ call' = [call EXCEPT ![c] = [r EXCEPT !.pc = "cw_pending"]]
         /\ UNCHANGED <<wt, gh>>
    ELSE IF /\ attr.maxThreads # INFINITE_THREADS
            /\ p.totalThreads + 1 > attr.maxThreads
    THEN createWorker_Failed(c, p, [r EXCEPT !.cw = "EMAXTHREADS"])
    ELSE /\ \E w \in Workers :
            /\ wt[w].pc = "none"
            /\ \A v \in Workers : v < w => wt[v].pc # "none"
            /\ wt' = [wt EXCEPT ![w].pc = "start"]
         /\ tp' = [p EXCEPT !.pendingWorkerThreadStart = 1]
         /\ call' = [call EXCEPT ![c] = [r EXCEPT !.pc = "cw_started"]]
         /\ gh' = gh

\* addWorker's local threads, kept no larger than the least value for which
\* the test of line 526 has the result it has for all larger ones: jobs is
\* at most attr.maxJobsTotal.
Counted(n) == IF n > attr.maxJobsTotal + 1 THEN attr.maxJobsTotal + 1 ELSE n

\* addWorker's loop (lines 526-533) with the locals jobs and threads of call
\* record r: one more worker is wanted when there is no regular thread, when
\* there are too many jobs per thread, or when every thread is busy.
addWorker(c, p, r) ==
    IF \/ r.threads = 0
       \/ (r.jobs \div (IF r.threads = 0 THEN 1 ELSE r.threads))
                >= attr.jobsPerThread
       \/ p.totalThreads = p.busyThreads
    THEN createWorker(c, p, r)
    ELSE addJob_Return(c, p, r)

\* addJob (lines 615-651) up to its first wait or its return: a full pool
\* drops the job; otherwise the job goes to the back of the queue of its
\* priority and addWorker runs.
addJob(c) ==
    /\ CanCall(c)
    /\ \E prio \in Priorities :
        LET r == [NoCall EXCEPT !.op = "addJob",
                                !.job = [id |-> c, priority |-> prio]]
            p == CASE prio = "HIGH_PRIORITY" ->
                        [tp EXCEPT !.highJobQ = Append(@, r.job)]
                   [] prio = "MED_PRIORITY" ->
                        [tp EXCEPT !.medJobQ = Append(@, r.job)]
                   [] OTHER ->
                        [tp EXCEPT !.lowJobQ = Append(@, r.job)]
        IN  IF TotalJobs(tp) >= attr.maxJobsTotal
            THEN addJob_Return(c, tp, [r EXCEPT !.job = NoJob])
            ELSE addWorker(c, p,
                    [r EXCEPT !.jobs = TotalJobs(p),
                              !.threads = Counted(p.totalThreads
                                                    - p.persistentThreads)])
    /\ UNCHANGED gena

\* Lines 487-489: the worker that was starting has started; createWorker
\* goes on from its test of the maximum.
createWorker_Retry(c) ==
    /\ call[c].pc = "cw_pending"
    /\ tp.pendingWorkerThreadStart = 0
    /\ createWorker(c, tp, call[c])
    /\ UNCHANGED gena

\* Lines 503-511: the thread this call started is running; createWorker
\* returns 0, addWorker counts the thread and tests again, addPersistent
\* goes on.
createWorker_Started(c) ==
    /\ call[c].pc = "cw_started"
    /\ tp.pendingWorkerThreadStart = 0
    /\ IF call[c].op = "addJob"
       THEN addWorker(c, tp, [call[c] EXCEPT !.threads = Counted(@ + 1)])
       ELSE addPersistent_Post(c, tp, call[c])
    /\ UNCHANGED gena

\* addPersistent (lines 573-613) up to its first wait or its return.
addPersistent(c) ==
    /\ CanCall(c)
    /\ \E prio \in {"MED_PRIORITY"} :
        LET r == [NoCall EXCEPT !.op = "addPersistent",
                                !.job = [id |-> c, priority |-> prio]]
        IN  IF tp.totalThreads < attr.maxThreads
            THEN createWorker(c, tp, r)
            ELSE IF tp.totalThreads - tp.persistentThreads - 1 = 0
            THEN /\ call' = [call EXCEPT ![c] = Ended(r, "EMAXTHREADS")]
                 /\ UNCHANGED <<tp, wt, gh>>
            ELSE addPersistent_Post(c, tp, r)
    /\ UNCHANGED gena

\* Lines 606-612: a worker has picked up the pending persistent job, or
\* shutdown has deleted it; addPersistent returns.
addPersistent_Picked(c) ==
    /\ call[c].pc = "ap_wait"
    /\ tp.persistentJob = NoJob
    /\ call' = [call EXCEPT ![c] = Ended(@, "0")]
    /\ UNCHANGED <<tp, wt, gh>>
    /\ UNCHANGED gena

\* shutdown (lines 707-746) up to its wait: the queued jobs and the pending
\* persistent job are deleted, shuttingdown is set, and the call returns at
\* once if there is no thread.
shutdown(c) ==
    /\ CanCall(c)
    /\ tp' = [tp EXCEPT !.highJobQ = <<>>, !.medJobQ = <<>>, !.lowJobQ = <<>>,
                        !.persistentJob = NoJob, !.shuttingdown = TRUE]
    /\ gh' = [gh EXCEPT !.discarded =
                @ \cup Ids(tp.highJobQ) \cup Ids(tp.medJobQ)
                  \cup Ids(tp.lowJobQ)
                  \cup (IF tp.persistentJob # NoJob
                        THEN {tp.persistentJob.id} ELSE {})]
    /\ call' = [call EXCEPT ![c] =
            IF tp.totalThreads > 0
            THEN [NoCall EXCEPT !.op = "shutdown", !.pc = "sd_wait"]
            ELSE Ended([NoCall EXCEPT !.op = "shutdown"], "0")]
    /\ UNCHANGED wt
    /\ UNCHANGED gena

\* Lines 741-745: the last thread is gone; shutdown returns.
shutdown_Return(c) ==
    /\ call[c].pc = "sd_wait"
    /\ tp.totalThreads = 0
    /\ call' = [call EXCEPT ![c] = Ended(@, "0")]
    /\ UNCHANGED <<tp, wt, gh>>
    /\ UNCHANGED gena

\* The pool after ThreadPool::start: the constructor (lines 536-571) has
\* created attr.minThreads workers, each of which has counted itself and is
\* about to look for work.
InitPool ==
    /\ tp = [NoThreads EXCEPT !.totalThreads = attr.minThreads]
    /\ wt = [w \in Workers |->
                IF w <= attr.minThreads
                THEN [NoWorker EXCEPT !.pc = "loop"]
                ELSE NoWorker]
    /\ call = [c \in Calls |-> NoCall]
    /\ gh = [taken |-> {}, discarded |-> {}]
    /\ NoGena

WorkerThread(w) ==
    \/ WorkerThread_Start(w)
    \/ WorkerThread_Loop(w)
    \/ WorkerThread_Wake(w)
    \/ WorkerThread_JobReturns(w)

\* The steps that continue a call of the API.
CallStep(c) ==
    \/ createWorker_Retry(c)
    \/ createWorker_Started(c)
    \/ addPersistent_Picked(c)
    \/ shutdown_Return(c)

NextPool ==
    \/ \E w \in Workers : WorkerThread(w)
    \/ \E c \in Calls : addJob(c) \/ addPersistent(c) \/ shutdown(c)
    \/ \E c \in Calls : CallStep(c)

SpecPool == InitPool /\ [][NextPool]_vars

\* Every worker thread and every thread in a call of the API that can take a
\* step eventually takes one; in particular every job's function returns.
FairSpecPool ==
    /\ SpecPool
    /\ \A w \in Workers : WF_vars(WorkerThread(w))
    /\ \A c \in Calls : WF_vars(CallStep(c))

\* ================================================================= claims
\* Thread t is blocked in SubscribeLock().
WaitsSubscribeLock(t) ==
    th[t].pc \in {"sub_sublock", "sub_bad_sublock", "notify_sublock"}

\* Thread t is blocked in HandleLock().
WaitsHandleLock(t) ==
    \/ th[t].pc \in {"sub_relock", "renew_relock", "unsub_relock",
                     "unreg_loop", "job_cblock", "notify_relock"}
    \/ th[t].pc = "job_start" /\ AUTO_RENEW_TIME # 0

\* Thread t has an outbound SUBSCRIBE or UNSUBSCRIBE in progress.
InHttp(t) == th[t].pc \in {"sub_http", "renew_http", "unsub_http", "unreg_http"}

\* The upcall a NOTIFY with SID sid and SEQ 0 must produce.
FirstEvent(sid) ==
    [type |-> "UPNP_EVENT_RECEIVED", Sid |-> sid, EventKey |-> 0,
     ChangedVariables |-> GoodRequest(sid, <<"0">>).propset]

\* C1 (as stated): a NOTIFY with SEQ 0 and SID s that missed its subscription
\* while a subscribe call was in flight, and whose SID that call then
\* recorded, is answered 200, never 412, and is delivered exactly once with
\* event_key 0 (stated for the states where the client is still registered).
C1_NotifyRacingSubscribeAdmitted ==
    \A n \in Threads :
        (th[n].recorded /\ GetClientHandleInfo # 0) =>
            /\ th[n].status # HTTP_PRECONDITION_FAILED
            /\ th[n].pc = "done" => th[n].upcalls = <<FirstEvent(th[n].in_sid)>>

\* C1 (amended): such a NOTIFY is not answered before the subscribe call it
\* raced with has finished; it is answered 412 only if no entry with its SID
\* is in the client's list when it retries the lookup, and otherwise it is
\* answered 200 and delivered exactly once with event_key 0.
C1_NotifyWaitsForSubscribe ==
    \A n \in Threads :
        /\ th[n].raced # {} /\ th[n].status # 0 =>
                \A k \in th[n].raced : th[k].pc \notin {"sub_http", "sub_relock"}
        /\ th[n].recorded /\ th[n].pc = "done" =>
                IF th[n].status = HTTP_PRECONDITION_FAILED
                THEN \/ GetClientHandleInfo = 0
                     \/ FindSub(ClientSubList[GetClientHandleInfo],
                                th[n].in_sid) = 0
                ELSE /\ th[n].status = HTTP_OK
                     /\ th[n].upcalls = <<FirstEvent(th[n].in_sid)>>

\* C1 witness: a NOTIFY that missed during a subscribe call, found the
\* subscription on the retry and was delivered.
C1_Witness ==
    \E n \in Threads :
        /\ th[n].recorded /\ th[n].pc = "done" /\ th[n].status = HTTP_OK
        /\ th[n].upcalls = <<FirstEvent(th[n].in_sid)>>

\* C2: no thread goes for the subscribe lock while it holds the handle lock.
C2_SubscribeLockBeforeHandleLock ==
    \A t \in Threads : WaitsSubscribeLock(t) => GlobalHndRWLock # t

\* C3: no state has one thread holding the handle lock and waiting for the
\* subscribe lock while another holds the subscribe lock and waits for the
\* handle lock.
C3_NoLockCycle ==
    ~ \E a, b \in Threads :
        /\ a # b
        /\ GlobalHndRWLock = a /\ WaitsSubscribeLock(a)
        /\ GlobalClientSubscribeMutex = b /\ WaitsHandleLock(b)

\* C4: a thread with an outbound request in progress does not hold the handle
\* lock; in subscribe it holds the subscribe lock, in renew, unsubscribe and
\* unregister_client it holds no lock.
C4_NoHandleLockAcrossHttp ==
    \A t \in Threads :
        InHttp(t) =>
            /\ GlobalHndRWLock # t
            /\ (GlobalClientSubscribeMutex = t) = (th[t].pc = "sub_http")

\* C4 witness: a SUBSCRIBE and a renewal or UNSUBSCRIBE request are in
\* progress at once.
C4_Witness ==
    \E t, u \in Threads :
        /\ th[t].pc = "sub_http"
        /\ th[u].pc \in {"renew_http", "unsub_http", "unreg_http"}

\* C5: a thread about to make the upcall (NOTIFY processing or the timer job)
\* holds neither lock.
C5_NoLockAtUpcall ==
    \A t \in Threads :
        th[t].pc \in {"notify_cb", "job_cb"} =>
            GlobalHndRWLock # t /\ GlobalClientSubscribeMutex # t

\* C5 witness: a NOTIFY that came through the SEQ 0 retry and a timer job are
\* both about to make their upcall.
C5_Witness ==
    \E n, j \in Threads :
        /\ th[n].pc = "notify_cb" /\ th[n].recorded
        /\ th[j].pc = "job_cb"

\* C6: no two subscriptions of a handle have the same SID.
C6_SidUnique ==
    \A h \in Handles :
        \A i, j \in 1..Len(ClientSubList[h]) :
            i # j => ClientSubList[h][i].SID # ClientSubList[h][j].SID

\* C7: a subscription has at most one pending renewal job carrying its handle
\* and SID (stated for the states where no call is in progress and the SIDs
\* in each list are distinct).
C7_OneLiveTimer ==
    (Quiescent /\ C6_SidUnique) =>
        \A h \in Handles :
            \A i \in 1..Len(ClientSubList[h]) :
                Cardinality({e \in timers :
                    e.handle = h /\ e.Sid = ClientSubList[h][i].SID}) <= 1

\* C8: the renewEventId of a subscription in a list is -1 or the id of a job
\* that is pending or executing.
C8_RenewEventIdLive ==
    \A h \in Handles :
        \A i \in 1..Len(ClientSubList[h]) :
            LET id == ClientSubList[h][i].renewEventId
            IN  \/ id = -1
                \/ \E e \in timers : e.eventId = id
                \/ \E t \in Threads : th[t].op = "timerjob" /\ th[t].eventId = id

\* C9: once unregister_client(h) has returned success, and no call was
\* started after it, the list of h is empty and no pending job carries h.
C9_UnregisterLeavesNothing ==
    \A u \in Threads :
        (/\ th[u].op = "unregister" /\ th[u].pc = "gone"
         /\ th[u].return_code = "UPNP_E_SUCCESS"
         /\ nops = u) =>
            /\ ClientSubList[th[u].handle] = <<>>
            /\ \A e \in timers : e.handle # th[u].handle

\* C10: when unsubscribe(h, sid) has found the subscription and the handle is
\* still a client at its return, it returns success and the list of h has no
\* entry with that SID, whatever the UNSUBSCRIBE request came to.
C10_UnsubscribeRemoves ==
    \A t \in Threads :
        (/\ th[t].op = "unsubscribe" /\ th[t].pc = "done"
         /\ th[t].http # "NONE"
         /\ GetHandleInfo(th[t].handle) = "HND_CLIENT") =>
            /\ th[t].return_code = "UPNP_E_SUCCESS"
            /\ FindSub(ClientSubList[th[t].handle], th[t].in_sid) = 0

\* C10 witness: an unsubscribe whose UNSUBSCRIBE request failed returns
\* success with the entry gone.
C10_Witness ==
    \E t \in Threads :
        /\ th[t].op = "unsubscribe" /\ th[t].pc = "done"
        /\ th[t].http = "UPNP_E_SOCKET_CONNECT"
        /\ th[t].return_code = "UPNP_E_SUCCESS"
        /\ FindSub(ClientSubList[th[t].handle], th[t].in_sid) = 0

\* Thread t is started by this step.
Starts(t) == th[t].pc = "idle" /\ th'[t].pc # "idle"

\* Every call before the t-th has returned.
AllReturnedBefore(t) == \A k \in 1..(t - 1) : th[k].pc = "gone"

\* C11: when unsubscribe(h, sid) has returned success with no other call in
\* progress and the next call, with h still a client, is unsubscribe(h, sid)
\* again, that call returns GENA_E_BAD_SID at once and leaves the lists and
\* the timers as they were.
C11_DoubleUnsubscribe ==
    [][\A t \in Threads :
        (/\ Starts(t) /\ t > 1 /\ AllReturnedBefore(t)
         /\ th[t - 1].op = "unsubscribe"
         /\ th[t - 1].return_code = "UPNP_E_SUCCESS"
         /\ th'[t].op = "unsubscribe"
         /\ th'[t].handle = th[t - 1].handle
         /\ th'[t].in_sid = th[t - 1].in_sid
         /\ GetHandleInfo(th[t - 1].handle) = "HND_CLIENT") =>
            /\ th'[t].pc = "done"
            /\ th'[t].return_code = "GENA_E_BAD_SID"
            /\ ClientSubList' = ClientSubList
            /\ timers' = timers]_vars

\* C11 witness: the second of two unsubscribe calls for one SID has returned
\* GENA_E_BAD_SID.
C11_Witness ==
    \E t \in Threads :
        /\ t > 1 /\ AllReturnedBefore(t)
        /\ th[t - 1].op = "unsubscribe"
        /\ th[t - 1].return_code = "UPNP_E_SUCCESS"
        /\ th[t].op = "unsubscribe" /\ th[t].pc = "done"
        /\ th[t].handle = th[t - 1].handle /\ th[t].in_sid = th[t - 1].in_sid
        /\ th[t].return_code = "GENA_E_BAD_SID"

\* The renewal job ScheduleGenaAutoRenew queues for subscription sub of
\* handle h with granted timeout g.
RenewalJob(id, h, sub, g) ==
    [eventId |-> id, handle |-> h, Sid |-> sub.SID, PublisherUrl |-> sub.eventURL,
     TimeOut |-> g, delay |-> g - AUTO_RENEW_TIME]

\* C12: a subscribe call that returns success with SID s and a finite timeout
\* g, s and g being those of a 200 reply, puts exactly one new entry
\* {s, PublisherURL} into the list of h and queues exactly one new renewal
\* job, due in g - AUTO_RENEW_TIME seconds, whose id is the entry's
\* renewEventId.
C12_SubscribeRecords ==
    [][\A t \in Threads :
        (/\ th[t].pc = "sub_relock" /\ th'[t].pc = "done"
         /\ th'[t].return_code = "UPNP_E_SUCCESS"
         /\ th'[t].TimeOut # UPNP_INFINITE) =>
            LET h == th[t].handle
                new == ClientSubList'[h][1]
            IN  /\ \E env \in SubscribeEnvs :
                    /\ env.http_status = HTTP_OK /\ env.curl_ok /\ env.has_sid
                    /\ th'[t].SID = env.sid /\ th'[t].TimeOut = env.timeout
                /\ Len(ClientSubList'[h]) = Len(ClientSubList[h]) + 1
                /\ Tail(ClientSubList'[h]) = ClientSubList[h]
                /\ \A k \in Handles \ {h} : ClientSubList'[k] = ClientSubList[k]
                /\ new.SID = th'[t].SID /\ new.eventURL = PublisherURL
                /\ \A e \in timers : e.eventId # new.renewEventId
                /\ timers' = timers \cup
                    {RenewalJob(new.renewEventId, h, new, th'[t].TimeOut)}]_vars

\* C12 witness: a subscribe call has returned success with a finite timeout;
\* its entry is at the front of the list and names a pending job due in
\* timeout - AUTO_RENEW_TIME seconds, AUTO_RENEW_TIME being 10.
C12_Witness ==
    \E t \in Threads :
        /\ th[t].op = "subscribe" /\ th[t].pc = "done"
        /\ th[t].return_code = "UPNP_E_SUCCESS"
        /\ th[t].TimeOut # UPNP_INFINITE /\ AUTO_RENEW_TIME = 10
        /\ LET new == ClientSubList[th[t].handle][1]
           IN  /\ new.SID = th[t].SID
               /\ RenewalJob(new.renewEventId, th[t].handle, new,
                             th[t].TimeOut) \in timers

\* Return codes with which gena_subscribe reports a failed SUBSCRIBE.
SubscribeErrors ==
    {"UPNP_E_INVALID_URL", "UPNP_E_SOCKET_CONNECT",
     "UPNP_E_SUBSCRIBE_UNACCEPTED", "UPNP_E_BAD_RESPONSE"}

\* C13: when the SUBSCRIBE of a subscribe call fails, the call returns
\* gena_subscribe's error code, no list and no timer changes, and the thread
\* holds neither lock.
C13_SubscribeFailure ==
    [][\A t \in Threads :
        (/\ th[t].pc = "sub_relock" /\ th'[t].pc = "done"
         /\ th'[t].http # "UPNP_E_SUCCESS") =>
            /\ th'[t].http \in SubscribeErrors
            /\ th'[t].return_code = th'[t].http
            /\ ClientSubList' = ClientSubList
            /\ timers' = timers
            /\ GlobalHndRWLock' # t
            /\ GlobalClientSubscribeMutex' # t]_vars

\* C13 witness: a subscribe call whose URL did not parse has returned
\* UPNP_E_INVALID_URL while another subscription is in the list.
C13_Witness ==
    \E t \in Threads :
        /\ th[t].op = "subscribe" /\ th[t].pc = "done"
        /\ th[t].http = "UPNP_E_INVALID_URL"
        /\ th[t].return_code = "UPNP_E_INVALID_URL"
        /\ ClientSubList[th[t].handle] # <<>>

\* Thread t, in genaRenewSubscription, takes the step after its SUBSCRIBE
\* request: the call returns to the application or to the timer job.
RenewReturns(t) ==
    th[t].pc = "renew_relock" /\ th'[t].pc \in {"done", "job_cblock"}

\* C14: when the SUBSCRIBE of renew(h, sid) fails and h is still a client,
\* the call returns gena_subscribe's error code, the list of h has no entry
\* with sid left, and no job is added to the timers.
C14_RenewFailureRemoves ==
    [][\A t \in Threads :
        (/\ RenewReturns(t)
         /\ th'[t].http # "UPNP_E_SUCCESS"
         /\ GetHandleInfo(th[t].handle) = "HND_CLIENT") =>
            /\ th'[t].http \in SubscribeErrors
            /\ th'[t].return_code = th'[t].http
            /\ FindSub(ClientSubList'[th[t].handle], th[t].in_sid) = 0
            /\ timers' \subseteq timers
            /\ lastEventId' = lastEventId]_vars

\* C14 witness: an application's renew call has returned the publisher's
\* refusal and the subscription it named is gone from the list.
C14_Witness ==
    \E t \in Threads :
        /\ th[t].op = "renew" /\ th[t].pc = "done"
        /\ th[t].http = "UPNP_E_SUBSCRIBE_UNACCEPTED"
        /\ th[t].return_code = "UPNP_E_SUBSCRIBE_UNACCEPTED"
        /\ GetHandleInfo(th[t].handle) = "HND_CLIENT"
        /\ FindSub(ClientSubList[th[t].handle], th[t].in_sid) = 0

\* Number of entries of list with SID sid.
CountSid(list, sid) == Cardinality({i \in 1..Len(list) : list[i].SID = sid})

\* Thread t renews alone: no call was in progress when it started and none
\* has started since.
RenewsAlone(t) == th[t].solo /\ nops = t

\* C15: when a renew of SID s, with no other call in progress from its start
\* to its return, returns success with SID s2 and a finite timeout, the list
\* has exactly one entry with s2 and none with s if s2 differs from s, that
\* entry's renewEventId names a job added by this step, and no upcall is
\* made.
C15_RenewRotatesSid ==
    [][\A t \in Threads :
        (/\ RenewReturns(t) /\ RenewsAlone(t)
         /\ th'[t].return_code = "UPNP_E_SUCCESS"
         /\ th'[t].TimeOut # UPNP_INFINITE) =>
            LET h == th[t].handle
                s == th[t].in_sid
                s2 == th'[t].SID
                list == ClientSubList'[h]
            IN  /\ CountSid(list, s2) = 1
                /\ s2 # s => CountSid(list, s) = 0
                /\ \E e \in timers' \ timers :
                    /\ e.eventId = list[FindSub(list, s2)].renewEventId
                    /\ e.handle = h /\ e.Sid = s2
                /\ th'[t].pc = "done" /\ th'[t].upcalls = <<>>]_vars

\* Return codes of genaRenewSubscription that the timer job reports.
ReportedErrors ==
    SubscribeErrors \cup {"UPNP_E_OUTOF_MEMORY"}

\* The upcall by which timer job t reports that its renewal failed.
AutoRenewalFailed(t) ==
    [type |-> "UPNP_EVENT_AUTORENEWAL_FAILED", Sid |-> th[t].in_sid,
     ErrCode |-> th[t].return_code]

\* Timer job t has finished after its renewal returned an error that is
\* neither GENA_E_BAD_SID nor GENA_E_BAD_HANDLE.
JobFailed(t) ==
    /\ th[t].op = "timerjob" /\ th[t].pc = "done" /\ AUTO_RENEW_TIME # 0
    /\ th[t].return_code \in ReportedErrors

\* C16 (as stated): a timer job whose renewal returned such an error has made
\* exactly one upcall, EVENT_AUTORENEWAL_FAILED with the job's SID and the
\* error code, and when the upcall is made the list has no entry with that
\* SID.
C16_AutoRenewalFailedUpcall ==
    \A t \in Threads :
        /\ JobFailed(t) => th[t].upcalls = <<AutoRenewalFailed(t)>>
        /\ (th[t].op = "timerjob" /\ th[t].pc = "job_cb" /\ AUTO_RENEW_TIME # 0) =>
                FindSub(ClientSubList[th[t].handle], th[t].in_sid) = 0

\* C16 (amended): such a job makes at most one upcall, which is
\* EVENT_AUTORENEWAL_FAILED with the job's SID and the error code, and makes
\* it if the handle is still a client; and when its renewal returns the error
\* the list has no entry with the SID of the renewed subscription (the job's
\* SID if the request failed, the newly granted SID if scheduling failed).
C16_AutoRenewalFailedIfClient ==
    /\ [](\A t \in Threads :
            JobFailed(t) =>
                /\ th[t].upcalls \in {<<>>, <<AutoRenewalFailed(t)>>}
                /\ GetHandleInfo(th[t].handle) = "HND_CLIENT" =>
                        th[t].upcalls = <<AutoRenewalFailed(t)>>)
    /\ [][\A t \in Threads :
            (RenewReturns(t) /\ th'[t].pc = "job_cblock") =>
                /\ th'[t].return_code \in ReportedErrors
                /\ FindSub(ClientSubList'[th[t].handle],
                           IF th'[t].http # "UPNP_E_SUCCESS"
                           THEN th[t].in_sid ELSE th'[t].SID) = 0]_vars

\* C16 witness: a timer job whose renewal request failed has made its one
\* upcall and the subscription is gone.
C16_Witness ==
    \E t \in Threads :
        /\ JobFailed(t) /\ th[t].return_code = "UPNP_E_SOCKET_CONNECT"
        /\ th[t].upcalls = <<AutoRenewalFailed(t)>>
        /\ FindSub(ClientSubList[th[t].handle], th[t].in_sid) = 0

\* Return codes of genaRenewSubscription that the timer job does not report.
SilentResults == {"UPNP_E_SUCCESS", "GENA_E_BAD_SID", "GENA_E_BAD_HANDLE"}

\* C17: a timer job whose renewal returned success, GENA_E_BAD_SID or
\* GENA_E_BAD_HANDLE never goes for the callback and ends without an upcall.
C17_SilentRenewalResults ==
    \A t \in Threads :
        (/\ th[t].op = "timerjob" /\ AUTO_RENEW_TIME # 0
         /\ th[t].return_code \in SilentResults) =>
            /\ th[t].pc = "done"
            /\ th[t].upcalls = <<>>

\* C17 witness: a timer job whose subscription was no longer in the list when
\* it renewed has ended without an upcall.
C17_Witness ==
    \E t \in Threads :
        /\ th[t].op = "timerjob" /\ th[t].pc = "done" /\ AUTO_RENEW_TIME # 0
        /\ th[t].return_code = "GENA_E_BAD_SID"
        /\ th[t].upcalls = <<>>

\* C18: a timer job that was executing when genaUnSubscribe or
\* genaUnregisterClient removed its subscription makes no upcall (stated for
\* the build with auto-renewal, where the job renews before any upcall).
C18_NoUpcallAfterRemoval ==
    \A t \in Threads :
        (th[t].op = "timerjob" /\ th[t].removed /\ AUTO_RENEW_TIME # 0) =>
            th[t].upcalls = <<>>

\* A NOTIFY transaction that has been looked at and has not yet returned.
Handled(t) ==
    th[t].op = "notify" /\ th[t].pc \notin {"notify_arrived", "gone"}

\* A SEQ value made of digits only.
IsDecimal(s) == s # <<>> /\ \A i \in 1..Len(s) : IsDigit(s[i])

\* A SEQ value with no sign and no blank in front.
Unsigned(s) == s = <<>> \/ Head(s) \notin {"-", "+", " "}

\* The status the validation pipeline gives a request: that of the earliest
\* failing check, 0 when every check passes.
FirstFailure(req) ==
    IF ~req.has_sid THEN 412
    ELSE IF ~req.has_seq \/ ~IsDecimal(req.seq) THEN 400
    ELSE IF ~req.has_nt \/ ~req.has_nts THEN 400
    ELSE IF req.nt # "upnp:event" \/ req.nts # "upnp:propchange" THEN 412
    ELSE IF ~req.xml_type \/ req.postdata_empty THEN 400
    ELSE IF ~req.parse_ok THEN 400
    ELSE 0

C20_EventKeyNonNegative ==
    \A t \in Threads :
        \A i \in 1..Len(th[t].upcalls) :
            th[t].upcalls[i].type = "UPNP_EVENT_RECEIVED"
            => th[t].upcalls[i].EventKey >= 0

\* The SID of a NOTIFY matches no subscription of the active client in the
\* current state, or there is no active client.
NoMatch(sid) ==
    \/ GetClientHandleInfo = 0
    \/ FindSub(ClientSubList[GetClientHandleInfo], sid) = 0

\* C21: a well-formed NOTIFY that finds no active client, or no subscription
\* with its SID, is answered 412 with no upcall: at its first lookup, without
\* touching the subscribe lock, when its SEQ is not 0 or there is no client;
\* at the retry under the subscribe lock when its SEQ is 0 and the SID is
\* still absent.  With SEQ 0 and a client the first miss answers nothing and
\* goes for the subscribe lock.
C21_UnknownSidRejected ==
    [][\A t \in Threads :
        (/\ th'[t].op = "notify" /\ th'[t].in_sid \in Sids
         /\ th[t].pc \in {"idle", "notify_relock"}
         /\ th'[t].pc # th[t].pc /\ NoMatch(th'[t].in_sid)) =>
            /\ (th[t].pc = "idle" /\
                (GetClientHandleInfo = 0 \/ th'[t].eventKey # 0)) =>
                    /\ th'[t].pc = "done" /\ th'[t].status = 412
                    /\ th'[t].upcalls = <<>>
                    /\ GlobalClientSubscribeMutex' = GlobalClientSubscribeMutex
            /\ (th[t].pc = "idle" /\ GetClientHandleInfo # 0 /\
                th'[t].eventKey = 0) =>
                    /\ th'[t].pc = "notify_sublock" /\ th'[t].status = 0
                    /\ th'[t].upcalls = <<>>
            /\ th[t].pc = "notify_relock" =>
                    /\ th'[t].pc = "done" /\ th'[t].status = 412
                    /\ th'[t].upcalls = <<>>
                    /\ GlobalClientSubscribeMutex = t
                    /\ GlobalClientSubscribeMutex' = 0]_vars

\* C21 witness: a NOTIFY with SEQ 0 that missed while a subscribe call was in
\* flight has been through the retry and has been answered 412.
C21_Witness ==
    \E t \in Threads :
        /\ th[t].op = "notify" /\ th[t].pc = "done" /\ th[t].eventKey = 0
        /\ th[t].raced # {} /\ th[t].status = 412 /\ th[t].upcalls = <<>>

\* The value of a SEQ header made of digits only.
SeqValue(s) == Decimal(s, Len(s))

\* The upcall a NOTIFY transaction must produce when it is delivered.
EventReceived(req) ==
    [type |-> "UPNP_EVENT_RECEIVED", Sid |-> req.sid,
     EventKey |-> SeqValue(req.seq), ChangedVariables |-> req.propset]

\* C22: a NOTIFY that passes validation and matches a subscription of the
\* client is answered 200 before the callback is invoked, and when it returns
\* the callback has been invoked exactly once, with EVENT_RECEIVED, the
\* subscription's SID, the SEQ value as event key and the parsed property
\* set; no upcall is made without the 200 answer.
C22_ResponseBeforeCallback ==
    \A t \in Threads :
        (Handled(t) /\ FirstFailure(th[t].req) = 0) =>
            /\ ~NoMatch(th[t].req.sid) =>
                /\ th[t].status = 200
                /\ th[t].pc \in {"notify_cb", "done"}
                /\ th[t].pc = "notify_cb" => th[t].upcalls = <<>>
                /\ th[t].pc = "done" =>
                        th[t].upcalls = <<EventReceived(th[t].req)>>
            /\ th[t].upcalls # <<>> => th[t].status = 200

\* C22 witness: a NOTIFY with SEQ 1 for the client's subscription has been
\* answered 200 and delivered once.
C22_Witness ==
    \E t \in Threads :
        /\ Handled(t) /\ th[t].pc = "done" /\ th[t].status = 200
        /\ th[t].req.seq = <<"1">>
        /\ th[t].upcalls = <<EventReceived(th[t].req)>>

\* The thread of a subscribe or renew call t gets the handle lock back after
\* its request in this step.
RequestReturns(t) ==
    th[t].pc \in {"sub_relock", "renew_relock"} /\ th'[t].pc # th[t].pc

\* C23: the TIMEOUT value of the request of a subscribe or renew call is
\* "infinite" when the requested timeout is negative, the decimal text of
\* CP_MINIMUM_SUBSCRIPTION_TIME when it is between 0 and that floor, and the
\* decimal text of the requested timeout otherwise; it is never a number
\* below the floor.
C23_TimeoutHeader ==
    [][\A t \in Threads :
        RequestReturns(t) =>
            LET requested == th[t].TimeOut
                N == th'[t].timostr
            IN  /\ requested < 0 => N = <<"infinite">>
                /\ (0 <= requested /\ requested < CP_MINIMUM_SUBSCRIPTION_TIME) =>
                        IsDecimal(N) /\ SeqValue(N) = CP_MINIMUM_SUBSCRIPTION_TIME
                /\ requested >= CP_MINIMUM_SUBSCRIPTION_TIME =>
                        IsDecimal(N) /\ SeqValue(N) = requested
                /\ N # <<"infinite">> =>
                        IsDecimal(N) /\ SeqValue(N) >= CP_MINIMUM_SUBSCRIPTION_TIME]_vars

\* C23 witness: a subscribe call that asked for 0 seconds had its request
\* refused; the request carried the floor.
C23_Witness ==
    \E t \in Threads :
        /\ th[t].op = "subscribe" /\ th[t].pc = "done"
        /\ th[t].http = "UPNP_E_SUBSCRIBE_UNACCEPTED" /\ th[t].TimeOut = 0
        /\ th[t].timostr = ToDecimal(CP_MINIMUM_SUBSCRIPTION_TIME)

\* C24: a subscribe call with a negative requested timeout sends "infinite",
\* and when it returns no renewal job has been added and no entry of the list
\* names one it did not name before, whatever timeout the reply grants.
C24_InfiniteRequestNoTimer ==
    [][\A t \in Threads :
        (RequestReturns(t) /\ th[t].op = "subscribe" /\ th[t].TimeOut < 0) =>
            /\ th'[t].timostr = <<"infinite">>
            /\ timers' = timers
            /\ \A i \in 1..Len(ClientSubList'[th[t].handle]) :
                LET e == ClientSubList'[th[t].handle][i]
                IN  e.renewEventId # -1 =>
                        FindSub(ClientSubList[th[t].handle], e.SID) # 0]_vars

\* The error do_subscribe reports for an outcome, by precedence; success if
\* none applies.
SubscribeOutcome(env) ==
    IF ~env.url_ok THEN "UPNP_E_INVALID_URL"
    ELSE IF ~env.if_ok THEN "UPNP_E_SOCKET_CONNECT"
    ELSE IF ~env.curl_ok THEN "UPNP_E_SOCKET_CONNECT"
    ELSE IF env.http_status # 200 THEN "UPNP_E_SUBSCRIBE_UNACCEPTED"
    ELSE IF ~env.has_sid \/ ~env.has_timeout \/ ~env.timeout_ok
    THEN "UPNP_E_BAD_RESPONSE"
    ELSE "UPNP_E_SUCCESS"

\* C26: gena_subscribe reports the first that applies of: URL error for an
\* unparsable URL, SOCKET_CONNECT for no local interface, SOCKET_CONNECT for
\* a transport failure, SUBSCRIBE_UNACCEPTED for a status other than 200,
\* BAD_RESPONSE for a reply without SID or TIMEOUT or with an unparsable
\* TIMEOUT, and success otherwise, with the reply's SID and timeout; on every
\* error the SID it hands back is empty.
C26_SubscribeErrorPrecedence ==
    \A t \in Threads :
        (th[t].op \in {"subscribe", "renew"} /\ th[t].http # "NONE") =>
            /\ th[t].http = SubscribeOutcome(th[t].env)
            /\ th[t].http # "UPNP_E_SUCCESS" => th[t].SID = ""
            /\ th[t].http = "UPNP_E_SUCCESS" =>
                    /\ th[t].SID = th[t].env.sid
                    /\ th[t].TimeOut = th[t].env.timeout

\* C26 witness: a request that failed in transport, with a status that is
\* not 200 on record, was reported as SOCKET_CONNECT.
C26_Witness ==
    \E t \in Threads :
        /\ th[t].op = "subscribe" /\ th[t].pc = "done"
        /\ th[t].env.url_ok /\ th[t].env.if_ok
        /\ ~th[t].env.curl_ok /\ th[t].env.http_status = 500
        /\ th[t].http = "UPNP_E_SOCKET_CONNECT" /\ th[t].SID = ""

\* C25: every genaUnregisterClient call returns: a call in its loop reaches
\* its return, and the handle lock a call waits for in HandleLock() (line
\* 431) is free again whenever it is held.
C25_UnregisterTerminates ==
    /\ \A t \in Threads :
        (th[t].op = "unregister" /\ th[t].pc \in {"unreg_http", "unreg_loop"})
            ~> (th[t].pc \in {"done", "gone"})
    /\ (GlobalHndRWLock # 0) ~> (GlobalHndRWLock = 0)

ReplyReturns(t) ==
    \/ th[t].pc = "sub_relock" /\ th'[t].pc = "done"
    \/ RenewReturns(t)

\* C28 as stated: when the handle is no longer a client at the time the
\* request of a subscribe or renew call has returned, the call returns
\* GENA_E_BAD_HANDLE, changes no subscription list, adds no job and holds
\* no lock afterwards.
C28_TornDownBadHandle ==
    [][\A t \in Threads :
        (ReplyReturns(t) /\ hndType[th[t].handle] # "HND_CLIENT") =>
            /\ th'[t].return_code = "GENA_E_BAD_HANDLE"
            /\ ClientSubList' = ClientSubList
            /\ timers' = timers /\ lastEventId' = lastEventId
            /\ GlobalHndRWLock' = 0
            /\ GlobalClientSubscribeMutex' # t]_vars

\* C28 amended: the same, except that genaSubscribe tests the result of its
\* request (lines 519-523) before it looks at the handle again (lines
\* 525-528), so that a subscribe call whose request failed returns the
\* request's error; genaRenewSubscription looks at the handle first (lines
\* 582-587) and always returns GENA_E_BAD_HANDLE.
C28_TornDownHandle ==
    [][\A t \in Threads :
        (ReplyReturns(t) /\ hndType[th[t].handle] # "HND_CLIENT") =>
            /\ th'[t].return_code =
                    IF th[t].op = "subscribe" /\ th'[t].http # "UPNP_E_SUCCESS"
                    THEN th'[t].http
                    ELSE "GENA_E_BAD_HANDLE"
            /\ ClientSubList' = ClientSubList
            /\ timers' = timers /\ lastEventId' = lastEventId
            /\ GlobalHndRWLock' = 0
            /\ GlobalClientSubscribeMutex' # t]_vars

\* C28 witness: a subscribe call whose request succeeded has returned
\* GENA_E_BAD_HANDLE for a handle that was freed in the meantime, and no lock
\* is held.
C28_Witness ==
    /\ \E t \in Threads :
        /\ th[t].op = "subscribe" /\ th[t].pc = "done"
        /\ th[t].http = "UPNP_E_SUCCESS"
        /\ th[t].return_code = "GENA_E_BAD_HANDLE"
        /\ hndType[th[t].handle] # "HND_CLIENT"
    /\ GlobalHndRWLock = 0 /\ GlobalClientSubscribeMutex = 0


\* C29: no subscription list holds an entry whose SID is the empty string,
\* whatever SID header the publisher's 200 reply to SUBSCRIBE or to a renewal
\* carries.
C29_NoEmptySid ==
    \A h \in Handles : \A i \in 1..Len(ClientSubList[h]) :
        ClientSubList[h][i].SID # ""


\* The one upcall of a job in a build without auto-renewal.
SubscriptionExpired(sid) ==
    [type |-> "UPNP_EVENT_SUBSCRIPTION_EXPIRED", Sid |-> sid,
     ErrCode |-> "UPNP_E_SUCCESS"]

\* C30: in a build with AUTO_RENEW_TIME 0, every step of a fired job leaves
\* the subscription lists and the timers as they are, the job sends no
\* renewal request, and it makes exactly one upcall,
\* UPNP_EVENT_SUBSCRIPTION_EXPIRED with UPNP_E_SUCCESS and the job's SID, if
\* the handle is a client when the job looks it up, and none otherwise.
C30_ExpiredWithoutRenewal ==
    [][AUTO_RENEW_TIME = 0 =>
        \A t \in Threads :
            (/\ th[t].op = "timerjob" /\ th[t].pc \notin {"done", "gone"}
             /\ th'[t].pc # th[t].pc) =>
                /\ ClientSubList' = ClientSubList
                /\ timers' = timers /\ lastEventId' = lastEventId
                /\ th'[t].http = "NONE"
                /\ \/ /\ th[t].pc = "job_start" /\ th'[t].pc = "job_cblock"
                      /\ th'[t].return_code = "UPNP_E_SUCCESS"
                      /\ th'[t].upcalls = <<>>
                   \/ /\ th[t].pc = "job_cblock"
                      /\ hndType[th[t].handle] = "HND_CLIENT"
                      /\ th'[t].pc = "job_cb" /\ th'[t].upcalls = <<>>
                   \/ /\ th[t].pc = "job_cblock"
                      /\ hndType[th[t].handle] # "HND_CLIENT"
                      /\ th'[t].pc = "done" /\ th'[t].upcalls = <<>>
                   \/ /\ th[t].pc = "job_cb" /\ th'[t].pc = "done"
                      /\ th'[t].upcalls =
                            <<SubscriptionExpired(th[t].in_sid)>>]_vars

\* C30 witness: in a build with AUTO_RENEW_TIME 0 a fired job has made its
\* upcall and ended, and the entry it was scheduled for is still in the list.
C30_Witness ==
    /\ AUTO_RENEW_TIME = 0
    /\ \E t \in Threads :
        /\ th[t].op = "timerjob" /\ th[t].pc = "done"
        /\ th[t].upcalls = <<SubscriptionExpired(th[t].in_sid)>>
        /\ FindSub(ClientSubList[th[t].handle], th[t].in_sid) # 0


\* C31: a genaSubscribe call that returns anything but success leaves every
\* subscription list as it was.
C31_SubscribeErrorLeavesTable ==
    [][\A t \in Threads :
        (/\ th[t].op = "subscribe" /\ th[t].pc = "sub_relock"
         /\ th'[t].pc = "done"
         /\ th'[t].return_code # "UPNP_E_SUCCESS") =>
            ClientSubList' = ClientSubList]_vars


\* The step in which genaUnSubscribe of thread t returns success (lines
\* 479-488).
UnsubscribeSucceeds(t) ==
    /\ th[t].op = "unsubscribe" /\ th[t].pc = "unsub_relock"
    /\ th'[t].pc = "done" /\ th'[t].return_code = "UPNP_E_SUCCESS"

\* C32: when genaUnSubscribe returns success, the entry it copied at its
\* start is in the list under no SID, not under the SID it was called with
\* and not under the SID a renewal gave the entry during the UNSUBSCRIBE
\* request.
C32_UnsubscribeRemovesRenamed ==
    [][\A t \in Threads :
        UnsubscribeSucceeds(t) =>
            LET list == ClientSubList'[th[t].handle]
            IN  /\ FindSub(list, th[t].in_sid) = 0
                /\ th[t].renamed # "" => FindSub(list, th[t].renamed) = 0]_vars


\* C33: when genaUnSubscribe returns success, the timer thread holds no job
\* for the handle and SID of the call, also when a renewal armed a new job
\* between the call's copy of the entry and its clientCancelRenew.
C33_UnsubscribeCancelsTimer ==
    [][\A t \in Threads :
        UnsubscribeSucceeds(t) =>
            ~ \E e \in timers' :
                e.handle = th[t].handle /\ e.Sid = th[t].in_sid]_vars


\* Thread t is in no call: it has not started one, or its call has returned.
Returned(f, t) == f[t].pc \in {"idle", "done", "gone"}

\* C34: a thread whose call has returned holds neither lock, both locks are
\* free when no call is in progress, and a lock changes hands only in a step
\* of the thread that held it or of the thread that takes it.
C34_LockBalance ==
    [][/\ \A t \in Threads :
            Returned(th', t) =>
                GlobalHndRWLock' # t /\ GlobalClientSubscribeMutex' # t
       /\ (\A t \in Threads : Returned(th', t)) =>
                GlobalHndRWLock' = 0 /\ GlobalClientSubscribeMutex' = 0
       /\ \A t \in Threads :
            /\ (GlobalHndRWLock' # GlobalHndRWLock
                    /\ t \in {GlobalHndRWLock, GlobalHndRWLock'}) =>
                th'[t].pc # th[t].pc
            /\ (GlobalClientSubscribeMutex' # GlobalClientSubscribeMutex
                    /\ t \in {GlobalClientSubscribeMutex,
                              GlobalClientSubscribeMutex'}) =>
                th'[t].pc # th[t].pc]_vars

\* C34 witness: a NOTIFY that took the subscribe lock and then the handle
\* lock on its recovery path has been answered and has returned, no call is
\* in progress and both locks are free.
C34_Witness ==
    /\ \E t \in Threads :
        /\ th[t].op = "notify" /\ th[t].pc = "done"
        /\ th[t].raced # {} /\ th[t].status = HTTP_OK
    /\ \A t \in Threads : Returned(th, t)
    /\ GlobalHndRWLock = 0 /\ GlobalClientSubscribeMutex = 0


\* The steps of NOTIFY processing and of the timer job in which thread t
\* reads a field of the handle's Handle_Info: the lookups of lines 727-759
\* with the copies of lines 785-786, the job's copy of Callback (line 155),
\* and the job's read of Cookie in the call of line 157.
HandleFieldRead(t) ==
    /\ th'[t].pc # th[t].pc
    /\ \/ th[t].pc \in {"idle", "notify_arrived"} /\ th'[t].op = "notify"
             /\ th'[t].status \notin {HTTP_BAD_REQUEST}
       \/ th[t].pc = "notify_relock"
       \/ th[t].pc = "job_cblock"
             /\ GetHandleInfo(th[t].handle) = "HND_CLIENT"
       \/ th[t].pc = "job_cb"

\* C35: NOTIFY processing and the timer job read a field of a handle only
\* inside the handle lock: never while another thread holds the lock, and
\* never after the handle was freed.
C35_ReadsUnderHandleLock ==
    [][\A t \in Threads :
        HandleFieldRead(t) =>
            /\ GlobalHndRWLock = 0
            /\ th[t].pc = "job_cb" =>
                    GetHandleInfo(th[t].handle) = "HND_CLIENT"]_vars


\* The status codes gena_process_notification_event answers with.
NotifyStatuses == {HTTP_OK, HTTP_BAD_REQUEST, HTTP_PRECONDITION_FAILED}

\* C36: a NOTIFY transaction is answered once, with 200, 400 or 412: it has
\* no answer only while it waits for a lock on the recovery path, an answer
\* once given is never replaced, it has its answer when it returns, and the
\* callback is invoked only for a transaction answered 200.
C36_OneResponse ==
    [][\A t \in Threads :
        (th'[t].op = "notify" /\ th'[t].pc # "gone") =>
            /\ th'[t].status \in NotifyStatuses \cup {0}
            /\ th'[t].status = 0 <=>
                    th'[t].pc \in {"notify_arrived", "notify_sublock",
                                   "notify_relock"}
            /\ (th[t].op = "notify" /\ th[t].status # 0) =>
                    th'[t].status = th[t].status
            /\ th'[t].pc = "done" => th'[t].status \in NotifyStatuses
            /\ th'[t].upcalls # <<>> =>
                    th'[t].status = HTTP_OK /\ Len(th'[t].upcalls) = 1
            /\ th'[t].status # HTTP_OK => th'[t].pc # "notify_cb"]_vars

\* C36 witness: a transaction that found its subscription on the recovery
\* path has been answered 200, has been delivered and has returned.
C36_Witness ==
    \E t \in Threads :
        /\ th[t].op = "notify" /\ th[t].pc = "done"
        /\ th[t].raced # {} /\ th[t].status = HTTP_OK
        /\ th[t].upcalls # <<>>


\* C37: every job in the timer thread has a delay of at least one second:
\* for a finite granted timeout g the delay g - AUTO_RENEW_TIME of the job
\* ScheduleGenaAutoRenew adds is strictly positive.
C37_PositiveRenewalDelay ==
    \A e \in timers : e.delay > 0


\* The three queues of pool state p, highest priority first.
Queues(p) == <<p.highJobQ, p.medJobQ, p.lowJobQ>>

\* Pool state q hands job j to a worker and is left with the queues and the
\* persistent job of p2: j is the pending persistent job if there is one,
\* else the front job of the first queue of q that is not empty, and nothing
\* else leaves a queue.
TakesFrom(q, p2, j) ==
    IF q.persistentJob # NoJob
    THEN /\ j = q.persistentJob
         /\ p2.persistentJob = NoJob
         /\ Queues(p2) = Queues(q)
    ELSE /\ p2.persistentJob = NoJob
         /\ \E i \in 1..3 :
                /\ Queues(q)[i] # <<>>
                /\ \A k \in 1..(i - 1) : Queues(q)[k] = <<>>
                /\ j = Head(Queues(q)[i])
                /\ Queues(p2) = [Queues(q) EXCEPT ![i] = Tail(@)]

\* Worker w goes from looking for work to running a job.
TakesJob(w) == wt[w].pc # "run" /\ wt'[w].pc = "run"

\* C38: a worker that takes a job takes the pending persistent job if there
\* is one, otherwise the front job of the high queue, otherwise of the medium
\* queue, otherwise of the low queue, the queues being those that starvation
\* bumping has left; the job leaves the front of its queue and the rest of
\* the queue keeps its order; and the job has not been taken before and is
\* held by no other worker.
C38_TakeOrder ==
    [][\A w \in Workers :
        TakesJob(w) =>
            /\ wt'[w].job # NoJob
            /\ wt'[w].job.id \notin gh.taken
            /\ \A v \in Workers \ {w} : wt'[v].job # wt'[w].job
            /\ \E q \in bumpPriority(tp) : TakesFrom(q, tp', wt'[w].job)]_vars

\* C38 witness: a worker runs a high-priority job that was queued after a
\* medium-priority job that is still waiting in its queue.
C38_Witness ==
    \E w \in Workers :
        /\ wt[w].pc = "run"
        /\ wt[w].job.priority = "HIGH_PRIORITY"
        /\ tp.medJobQ # <<>>
        /\ Head(tp.medJobQ).id < wt[w].job.id



\* A thread is started in this step.
StartsThread == \E w \in Workers : wt[w].pc = "none" /\ wt'[w].pc = "start"

\* C39: with the finite attr.maxThreads of this pool, which nothing lowers,
\* totalThreads <= attr.maxThreads and busyThreads <= totalThreads in every
\* reachable state, whatever the interleaving of addJob and addPersistent
\* calls, worker start-up and idle worker exit; a thread is started only
\* when one more does not exceed the maximum, and a createWorker that
\* returns EMAXTHREADS has started none.
C39_ThreadCounts ==
    /\ [](/\ tp.totalThreads <= attr.maxThreads
          /\ tp.busyThreads <= tp.totalThreads)
    /\ [][/\ StartsThread => tp.totalThreads + 1 <= attr.maxThreads
          /\ \A c \in Calls :
                (call[c].cw # "EMAXTHREADS" /\ call'[c].cw = "EMAXTHREADS")
                    => /\ ~StartsThread
                       /\ tp.totalThreads + 1 > attr.maxThreads]_vars

\* C39 witness: the pool runs attr.maxThreads threads, all of them busy, and
\* the createWorker of an addJob call has returned EMAXTHREADS.
C39_Witness ==
    /\ tp.totalThreads = attr.maxThreads
    /\ tp.busyThreads = tp.totalThreads
    /\ \E c \in Calls : call[c].op = "addJob" /\ call[c].cw = "EMAXTHREADS"



\* Call c of shutdown returns in this step.
ShutdownReturns(c) ==
    /\ call'[c].op = "shutdown" /\ call'[c].pc = "done"
    /\ call[c].pc # "done"

\* C40, safety: a job that shutdown found queued or pending and deleted is
\* never executed; once shuttingdown is set no worker takes a job, a job
\* that addJob queues afterwards included; and shutdown returns only when
\* totalThreads is 0.
C40_ShutdownDiscards ==
    /\ [](gh.taken \cap gh.discarded = {})
    /\ [][/\ tp.shuttingdown => \A w \in Workers : ~TakesJob(w)
          /\ \A c \in Calls : ShutdownReturns(c) => tp'.totalThreads = 0]_vars

\* C40, liveness: every running job returning and every thread that can
\* take a step taking one, a shutdown that waits for the threads to exit
\* eventually returns.  An addJob that runs addWorker while the pool shuts
\* down starts a thread whenever totalThreads = busyThreads (line 526); the
\* thread counts itself, finds shuttingdown and exits (lines 421-423), and
\* the test is true again: totalThreads goes up and down for ever, and
\* no mutex or condition variable makes shutdown run while it is 0.
C40_ShutdownReturns ==
    \A c \in Calls : (call[c].pc = "sd_wait") ~> (call[c].pc = "done")

====
